---- MODULE Spec2Model ----
(***************************************************************************)
(* A model of the luapy virtual machine (leafvmaple/luapy): the hybrid     *)
(* array+hash Table of lua_types.py and the call/return protocol and       *)
(* opcode handlers of main.py, with the Value helpers of lua_value.py.     *)
(*                                                                         *)
(* Two specifications are given.  SpecTable drives one Table object with   *)
(* arbitrary sequences of Table.set calls.  Spec runs the interpreter on   *)
(* a family of small bytecode programs chosen in Init.                     *)
(***************************************************************************)
EXTENDS Integers, Sequences, FiniteSets, TLC

VARIABLES
    protos,       \* the decoded prototypes; protos[1] is the main chunk
    lclos,        \* heap of LClosure objects (a closure IS its own frame)
    pclos,        \* heap of PClosure objects (native closures)
    tables,       \* heap of Table objects
    globals,      \* LuaState.globals, a Table
    call_info,    \* LuaState.call_info: references to closure objects
    activations,  \* host (Python) activations of LuaState.call / pycall
    inst,         \* the instruction most recently fetched by excute
    err,          \* the exception that ended the run, "" while running
    halted,       \* the top-level dispatch loop has ended
    lastpy,       \* pycall's closure and ret_count at its most recent return
    lastset,      \* arguments of the most recent Table.set call, and the
                  \* length of the array part before it (SpecTable)
    nobj,         \* the highest identity given to a Value object so far
    typemt,       \* LuaState.mt, the Table of per-type metatables
    pylua         \* the PyLua object: the chunk read and what was loaded

vars == <<protos, lclos, pclos, tables, globals, call_info, activations,
          inst, err, halted, lastpy, lastset, nobj, typemt, pylua>>

vmvars == <<protos, lclos, pclos, globals, call_info, activations,
            inst, err, halted, lastpy, nobj, typemt, pylua>>

(***************************************************************************)
(* Bounds of the model.                                                    *)
(***************************************************************************)
MaxKey == 3
MaxArgs == 2
MaxRets == 2
\* the host's recursion limit, counted in nested Value.gettable calls
RecursionLimit == 3

(***************************************************************************)
(* Values.  Every value is a record with the same four fields so that      *)
(* any two values can be compared.  Numbers are integers here: a float     *)
(* with an integer value is canonicalised to an int by Value.__init__ /    *)
(* conv_float_to_int, and no non-integral float is drawn.  The field o     *)
(* is the identity of the Value object where the code can change a Value   *)
(* in place (conv_str_to_number on a string, += on a number): the places   *)
(* that hold one object hold records with one o > 0.  It is 0 for the      *)
(* kinds no code changes in place.                                         *)
(***************************************************************************)
Nil == [t |-> "nil", n |-> 0, s |-> "", o |-> 0]
Bool(b) == [t |-> "boolean", n |-> IF b THEN 1 ELSE 0, s |-> "", o |-> 0]
Num(i) == [t |-> "number", n |-> i, s |-> "", o |-> 0]
Str(x) == [t |-> "string", n |-> 0, s |-> x, o |-> 0]
TableV(id) == [t |-> "table", n |-> id, s |-> "", o |-> 0]
LClosureV(id) == [t |-> "function", n |-> id, s |-> "L", o |-> 0]
PClosureV(id) == [t |-> "function", n |-> id, s |-> "P", o |-> 0]
\* Python's None where the code stores or returns it in place of a Value
None == [t |-> "None", n |-> 0, s |-> "", o |-> 0]

\* the Value object o holding v, and what a Value holds whatever object it is
Obj(v, o) == [v EXCEPT !.o = o]
Raw(v) == [v EXCEPT !.o = 0]

is_nil(v) == v.t = "nil"
is_boolean(v) == v.t = "boolean"
is_number(v) == v.t = "number"
is_string(v) == v.t = "string"
is_table(v) == v.t = "table"
is_function(v) == v.t = "function"
is_lclosure(v) == v.t = "function" /\ v.s = "L"

\* Value.get_boolean
get_boolean(v) ==
    IF is_nil(v) THEN FALSE ELSE IF is_boolean(v) THEN v.n = 1 ELSE TRUE

\* Value.get_integer: the int of a number, None (here: FALSE) otherwise.
\* A bool is not an int for type(v) is int.
has_integer(v) == is_number(v)

(***************************************************************************)
(* Table (lua_types.py).  _list is a sequence, _map a function whose       *)
(* domain is the set of stored keys; a raw int key k is written Num(k).    *)
(***************************************************************************)
EmptyTable == [list |-> <<>>, map |-> <<>>, mt |-> 0]

\* a dict keyed by Value: Value.__hash__ and __eq__ look at the content
MapGet(m, k) == IF Raw(k) \in DOMAIN m THEN m[Raw(k)] ELSE None
MapPut(m, k, v) ==
    [x \in (DOMAIN m) \cup {Raw(k)} |-> IF x = Raw(k) THEN v ELSE m[x]]
MapDel(m, k) == [x \in (DOMAIN m) \ {Raw(k)} |-> m[x]]

TableGet(T, key) ==
    IF has_integer(key)
    THEN IF 1 <= key.n /\ key.n <= Len(T.list)
         THEN T.list[key.n]
         ELSE MapGet(T.map, key)
    ELSE MapGet(T.map, key)

TableLen(T) == Len(T.list)

\* a wrong _shrink_list that forgets the elements after key (what C28 must
\* rule out)
ShrinkListDrop(T, k) == [T EXCEPT !.list = SubSeq(T.list, 1, k - 1)]

\* _shrink_list(key): demote key+1..N into the map, truncate to key-1
ShrinkList(T, k) ==
    LET moved == {Num(i) : i \in (k + 1)..Len(T.list)}
    IN [T EXCEPT
          !.map = [x \in (DOMAIN T.map) \cup moved |->
                      IF x \in moved THEN T.list[x.n] ELSE T.map[x]],
          !.list = SubSeq(T.list, 1, k - 1)]

\* a wrong _expand_list that promotes nothing (what C8 must rule out)
ExpandListNoPromote(T) == T

\* a wrong _expand_list that promotes one successor only (what C27 must
\* rule out)
ExpandListOnce(T) ==
    IF Num(Len(T.list) + 1) \in DOMAIN T.map
    THEN [T EXCEPT !.list = Append(T.list, T.map[Num(Len(T.list) + 1)]),
                   !.map = MapDel(T.map, Num(Len(T.list) + 1))]
    ELSE T

\* _expand_list: promote the contiguous successors from the map
RECURSIVE ExpandList(_)
ExpandList(T) ==
    LET k == Num(Len(T.list) + 1)
    IN IF k \in DOMAIN T.map
       THEN ExpandList([T EXCEPT !.list = Append(T.list, T.map[k]),
                                 !.map = MapDel(T.map, k)])
       ELSE T

\* a wrong set that stores Nil in the array slot of the key instead of
\* truncating the array (what C40 must rule out)
TableSetNilSlot(T, key, value) ==
    IF has_integer(key)
    THEN IF key.n = Len(T.list) + 1 /\ ~is_nil(value)
         THEN ExpandList([T EXCEPT !.list = Append(T.list, value)])
         ELSE IF 1 <= key.n /\ key.n <= Len(T.list)
              THEN [T EXCEPT !.list[key.n] = value]
              ELSE IF is_nil(value) THEN T
              ELSE [T EXCEPT !.map = MapPut(T.map, key, value)]
    ELSE IF is_nil(value)
         THEN IF Raw(key) \in DOMAIN T.map
              THEN [T EXCEPT !.map = MapDel(T.map, key)]
              ELSE T
         ELSE [T EXCEPT !.map = MapPut(T.map, key, value)]

TableSet(T, key, value) ==
    IF is_nil(value)
    THEN IF has_integer(key)
         THEN IF 1 <= key.n /\ key.n <= Len(T.list)
              THEN ShrinkList(T, key.n)
              ELSE T
         ELSE IF Raw(key) \in DOMAIN T.map
              THEN [T EXCEPT !.map = MapDel(T.map, key)]
              ELSE T
    ELSE IF has_integer(key)
         THEN IF key.n = Len(T.list) + 1
              THEN ExpandList([T EXCEPT !.list = Append(T.list, value)])
              ELSE IF 1 <= key.n /\ key.n <= Len(T.list)
                   THEN [T EXCEPT !.list[key.n] = value]
                   ELSE [T EXCEPT !.map = MapPut(T.map, key, value)]
         ELSE [T EXCEPT !.map = MapPut(T.map, key, value)]

\* Table.getmetatable (lua_table.py is not among the sources)
TableGetMetatable(T) == T.mt

(***************************************************************************)
(* Instructions as Instruction.__init__ leaves them: the opcode name and   *)
(* the decoded fields, where Bx = B*512 + C and sBx = Bx - 131071.         *)
(***************************************************************************)
ABC(op, a, b, c) ==
    [op |-> op, a |-> a, b |-> b, c |-> c,
     bx |-> b * 512 + c, sbx |-> b * 512 + c - 131071]
ABx(op, a, bx) ==
    [op |-> op, a |-> a, b |-> bx \div 512, c |-> bx % 512,
     bx |-> bx, sbx |-> bx - 131071]
AsBx(op, a, sbx) == ABx(op, a, sbx + 131071)
\* OPCODES: the opcode names by opcode number
OPCODES ==
    <<"MOVE", "LOADK", "LOADBOOL", "LOADNIL", "GETUPVAL", "GETGLOBAL",
      "GETTABLE", "SETGLOBAL", "SETUPVAL", "SETTABLE", "NEWTABLE", "SELF",
      "ADD", "SUB", "MUL", "DIV", "MOD", "POW", "UNM", "NOT", "LEN", "CONCAT",
      "JMP", "EQ", "LT", "LE", "TEST", "TESTSET", "CALL", "TAILCALL",
      "RETURN", "FORLOOP", "FORPREP", "TFORLOOP", "SETLIST", "CLOSE",
      "CLOSURE", "VARARG">>

\* A 32-bit word is held as its two 16-bit halves, hi * 2^16 + lo, so
\* that no word leaves the range of the checker's integers.
WordOf(n) == [hi |-> n \div 65536, lo |-> n % 65536]

RECURSIVE Pow2(_)
Pow2(k) == IF k = 0 THEN 1 ELSE 2 * Pow2(k - 1)

\* w >> k
Shr(w, k) ==
    IF k <= 16 THEN w.hi * Pow2(16 - k) + (w.lo \div Pow2(k))
    ELSE w.hi \div Pow2(k - 16)

\* a wrong decoding, which takes B from bits 14-22 and C from bits 23-31
\* (what C37 must rule out)
DecodeFieldsSwapped(w) ==
    [opcode |-> w.lo % 64,
     a |-> Shr(w, 6) % 256,
     c |-> Shr(w, 23) % 512,
     b |-> Shr(w, 14) % 512,
     bx |-> Shr(w, 14) % 262144,
     sbx |-> (Shr(w, 14) % 262144) - 131071]

\* Instruction.update_info: the fields of the 32-bit word w; & with a mask
\* of m low bits is % 2^m, which for the unshifted word reads its low half
DecodeFields(w) ==
    [opcode |-> w.lo % 64,
     a |-> Shr(w, 6) % 256,
     c |-> Shr(w, 14) % 512,
     b |-> Shr(w, 23) % 512,
     bx |-> Shr(w, 14) % 262144,
     sbx |-> (Shr(w, 14) % 262144) - 131071]

\* OPCODES[self._opcode]: an opcode number past the end of OPCODES raises
\* IndexError
OpName(opcode) ==
    IF opcode < Len(OPCODES) THEN OPCODES[opcode + 1] ELSE "IndexError"

\* the instruction decoded from the word of value w
Decode(w) ==
    [op |-> OpName(DecodeFields(WordOf(w)).opcode),
     a |-> DecodeFields(WordOf(w)).a,
     c |-> DecodeFields(WordOf(w)).c,
     b |-> DecodeFields(WordOf(w)).b,
     bx |-> DecodeFields(WordOf(w)).bx,
     sbx |-> DecodeFields(WordOf(w)).sbx]

\* Instruction.instruction: the word an instruction was decoded from
InstructionWord(i) ==
    (CHOOSE n \in 1..Len(OPCODES) : OPCODES[n] = i.op) - 1
    + i.a * 64 + i.bx * 16384

\* what excute holds when fetch returned None
NoInst == [op |-> "NONE", a |-> 0, b |-> 0, c |-> 0, bx |-> 0, sbx |-> 0]

\* Proto: the fields the interpreter reads; nested prototypes are indices
\* into the flat sequence protos
Proto(numparams, is_vararg, maxstacksize, nups, codes, consts, subs) ==
    [numparams |-> numparams, is_vararg |-> is_vararg,
     maxstacksize |-> maxstacksize, nups |-> nups,
     codes |-> codes, consts |-> consts, protos |-> subs]

\* LClosure.__init__.  The field upfrom is history, read by no handler:
\* the frame and register each upvalue was captured from.
NoCapture == [frame |-> 0, reg |-> 0]
NewLClosure(P, p) ==
    [func |-> p,
     stack |-> [i \in 1..P[p].maxstacksize |-> Nil],
     upvalues |-> [i \in 1..P[p].nups |-> Nil],
     upfrom |-> [i \in 1..P[p].nups |-> NoCapture],
     varargs |-> <<>>, nrets |-> 0, ret_idx |-> 0, pc |-> 0]

\* PClosure.__init__
NewPClosure(f) == [func |-> f, stack |-> <<>>]

LRef(id) == [k |-> "L", id |-> id]
PRef(id) == [k |-> "P", id |-> id]

(***************************************************************************)
(* The state as the dispatch loop sees it.  LuaState.stack and .func are   *)
(* always the stack and func of call_info[-1] when a handler starts, so    *)
(* they are read off the top closure.                                      *)
(***************************************************************************)
Top == call_info[Len(call_info)]
Running == ~halted /\ err = ""
OnLua == Running /\ call_info # <<>> /\ Top.k = "L"
Cur == Top.id
CurProto == protos[lclos[Cur].func]
Code == CurProto.codes
\* LuaState.fetch / LClosure.fetch
CanFetch == OnLua /\ lclos[Cur].pc < Len(Code)
Fetched == Code[lclos[Cur].pc + 1]
AfterFetch == [lclos EXCEPT ![Cur].pc = @ + 1]
Stack == lclos[Cur].stack

\* a Python list index that does not raise IndexError (no negative index
\* arises from the operands, which are all >= 0)
InReg(st, i) == 0 <= i /\ i < Len(st)
SetReg(h, id, i, v) == [h EXCEPT ![id].stack[i + 1] = v]

\* LuaState._get_rk
IsK(rk) == rk >= 256
\* a wrong helper that takes v - 256 for a register index (what C25 must
\* rule out)
RKRegister(rk) ==
    IF IsK(rk) THEN lclos[Cur].stack[((rk - 256) % Len(lclos[Cur].stack)) + 1]
    ELSE lclos[Cur].stack[rk + 1]
RKok(rk) ==
    IF IsK(rk) THEN rk - 256 < Len(CurProto.consts) ELSE InReg(Stack, rk)
RK(rk) ==
    IF IsK(rk) THEN CurProto.consts[rk - 256 + 1] ELSE Stack[rk + 1]

\* Value.get_metatable: a table's metatable (0 for none), None otherwise
GetMetatable(v) == IF is_table(v) THEN TableGetMetatable(tables[v.n]) ELSE 0

\* Table.gettable (lua_table.py is not among the sources): the stored value
TableGettable(T, key) == TableGet(T, key)

(***************************************************************************)
(* Value.gettable.  The lookup follows __index tables by recursion in the  *)
(* host, one host frame per table of the chain; the host gives up with a   *)
(* RecursionError when its recursion limit is exceeded.  The outcome is    *)
(* the value found (None for none), the __index function to be called      *)
(* with the table it was found for, or the host's error.                   *)
(***************************************************************************)
RECURSIVE ValueGettable(_, _, _)
GettableIndex(self, key, depth, index) ==
    IF index = None THEN [kind |-> "value", v |-> None]
    ELSE IF is_function(index)
    THEN [kind |-> "call", f |-> index, self |-> self]
    ELSE IF is_table(index) THEN ValueGettable(index, key, depth + 1)
    ELSE [kind |-> "value", v |-> None]

GettableValue(self, key, depth, value) ==
    IF value # None THEN [kind |-> "value", v |-> value]
    ELSE GettableIndex(self, key, depth,
                       IF GetMetatable(self) # 0
                       THEN TableGet(tables[GetMetatable(self)],
                                     Str("__index"))
                       ELSE None)

ValueGettable(self, key, depth) ==
    IF depth > RecursionLimit THEN [kind |-> "RecursionError"]
    ELSE GettableValue(self, key, depth,
                       IF is_table(self)
                       THEN TableGettable(tables[self.n], key) ELSE None)

(***************************************************************************)
(* precall.  The window is fresh, the first numparams arguments are the    *)
(* parameters, every further argument is appended to varargs.              *)
(***************************************************************************)
CallArgs(st, func_idx, nargs) == [i \in 1..nargs |-> st[func_idx + i + 1]]

PrecallStack(p, args) ==
    [i \in 1..p.maxstacksize |->
        IF i <= p.numparams /\ i <= Len(args) THEN args[i] ELSE Nil]

PrecallVarargs(p, args) == SubSeq(args, p.numparams + 1, Len(args))

Precall(c, p, args, func_idx, nrets) ==
    [c EXCEPT !.stack = PrecallStack(p, args),
              !.pc = 0,
              !.varargs = PrecallVarargs(p, args),
              !.nrets = nrets,
              !.ret_idx = func_idx]

\* the arguments can be read and the parameters fit the window
PrecallOk(st, p, func_idx, nargs) ==
    /\ nargs >= 0
    /\ func_idx + nargs < Len(st)
    /\ (IF nargs < p.numparams THEN nargs ELSE p.numparams) <= p.maxstacksize

(***************************************************************************)
(* pycall: the transfer of the native's results after pop_closure.         *)
(***************************************************************************)
\* a wrong transfer that reads the results from the bottom of the native's
\* stack (what C4 must rule out)
PycallTransferFromBottom(st, pst, func_idx, nrets, ret_count) ==
    [j \in 1..Len(st) |->
        LET i == j - 1 - func_idx
        IN IF 0 <= i /\ i < nrets
           THEN IF i < ret_count THEN pst[i + 1] ELSE Nil
           ELSE st[j]]

PycallTransfer(st, pst, func_idx, nrets, ret_count) ==
    LET ret_start == Len(pst) - ret_count
    IN [j \in 1..Len(st) |->
          LET i == j - 1 - func_idx
          IN IF 0 <= i /\ i < nrets
             THEN IF i < ret_count THEN pst[ret_start + i + 1] ELSE Nil
             ELSE st[j]]

PycallTransferOk(st, func_idx, nrets) ==
    nrets <= 0 \/ func_idx + nrets - 1 < Len(st)

(***************************************************************************)
(* The builtins of main.py that the programs call.  Each yields the        *)
(* native frame's stack when it returns, its return count, the exception   *)
(* it raises ("" for none) and whether it created a PClosure(lua_next).    *)
(***************************************************************************)
NativeOut(st, ret, e, newp) ==
    [stack |-> st, ret |-> ret, err |-> e, newp |-> newp,
     tables |-> tables, typemt |-> typemt]

lua_print(st) == NativeOut(st, 0, "", FALSE)

\* Value.type_name
type_name(v) ==
    CASE is_nil(v) -> "nil"
      [] is_boolean(v) -> "boolean"
      [] is_number(v) -> "number"
      [] is_string(v) -> "string"
      [] is_table(v) -> "table"
      [] is_function(v) -> "function"
      [] OTHER -> "unknown"

\* LuaState.getmetatable(idx) with idx = get_top() - 1: the table's own
\* metatable (a Table object), else the entry of LuaState.mt for the type
lua_getmetatable(st) ==
    IF Len(st) = 0 THEN NativeOut(st, 0, "IndexError", FALSE)
    ELSE LET obj == st[Len(st)]
         IN IF obj = None THEN NativeOut(st, 0, "AttributeError", FALSE)
            ELSE LET mt == GetMetatable(obj)
                     res == IF mt # 0 THEN TableV(mt)
                            ELSE TableGet(typemt, Str(type_name(obj)))
                 IN NativeOut([st EXCEPT ![1] = res], 1, "", FALSE)

\* Table.setmetatable
TableSetMetatable(T, mt) == [T EXCEPT !.mt = mt]

\* LuaState.setmetatable(idx) with idx = get_top() - 2 (a negative idx
\* counts from the end of the list), called by lua_setmetatable
lua_setmetatable(st) ==
    IF Len(st) = 0 THEN NativeOut(st, 0, "IndexError", FALSE)
    ELSE LET obj == IF Len(st) = 1 THEN st[1] ELSE st[Len(st) - 1]
             mt == st[Len(st)]
         IN IF mt = None THEN NativeOut(st, 0, "AttributeError", FALSE)
            ELSE IF ~is_table(mt) THEN NativeOut(st, 0, "AssertionError", FALSE)
            ELSE IF obj = None THEN NativeOut(st, 0, "AttributeError", FALSE)
            ELSE IF is_table(obj)
            THEN [NativeOut(st, 0, "", FALSE) EXCEPT
                    !.tables = [tables EXCEPT ![obj.n] =
                                   TableSetMetatable(tables[obj.n], mt.n)]]
            ELSE [NativeOut(st, 0, "", FALSE) EXCEPT
                    !.typemt = TableSet(typemt, Str(type_name(obj)), mt)]

lua_pairs(st) ==
    IF Len(st) = 0 THEN NativeOut(st, 0, "IndexError", FALSE)
    ELSE IF st[1] = None THEN NativeOut(st, 0, "AttributeError", FALSE)
    ELSE IF ~is_table(st[1]) THEN NativeOut(st, 0, "TypeError", FALSE)
    ELSE NativeOut(st \o <<PClosureV(Len(pclos) + 1), st[1], Nil>>,
                   3, "", TRUE)

NativeModelled == {"print", "getmetatable", "setmetatable", "pairs"}

NativeRun(f, st) ==
    CASE f = "print" -> lua_print(st)
      [] f = "getmetatable" -> lua_getmetatable(st)
      [] f = "setmetatable" -> lua_setmetatable(st)
      [] f = "pairs" -> lua_pairs(st)

(***************************************************************************)
(* poscall: the copy loop.  With dst the caller's window after i writes,   *)
(* the i-th value is read from the callee's window, which is the very      *)
(* list being written when caller and callee are the same closure object   *)
(* (aliased).                                                              *)
(***************************************************************************)
RECURSIVE PoscallCopy(_, _, _, _, _, _, _, _)
PoscallCopy(dst, src, aliased, ret_start, ret_count, ret_idx, n, i) ==
    IF i >= n THEN dst
    ELSE LET from == IF aliased THEN dst ELSE src
             v == IF i < ret_count THEN from[ret_start + i + 1] ELSE Nil
         IN PoscallCopy([dst EXCEPT ![ret_idx + i + 1] = v], src, aliased,
                        ret_start, ret_count, ret_idx, n, i + 1)

\* every read and write of the loop is inside its list
PoscallOk(dstlen, srclen, ret_start, ret_count, ret_idx, n) ==
    \A i \in 0..(n - 1) :
        /\ ret_idx + i < dstlen
        /\ (i < ret_count => ret_start + i < srclen)

(***************************************************************************)
(* TAILCALL: the frame stack after the target Lua closure took the place   *)
(* of the current frame.                                                   *)
(***************************************************************************)
\* a wrong TAILCALL that pushes the target as a call would (what C6 must
\* rule out)
TailcallPush(ci, id) == Append(ci, LRef(id))

TailcallFrames(ci, id) == [ci EXCEPT ![Len(ci)] = LRef(id)]

(***************************************************************************)
(* EQ: ArithOperator.solve / compare with CompareCheck and ==.             *)
(***************************************************************************)
CompareCheck(va, vb) ==
    \/ is_number(va) /\ is_number(vb)
    \/ is_string(va) /\ is_string(vb)

\* the metatable solve consults when the check fails: va's, else vb's
SolveMeta(va, vb) ==
    IF GetMetatable(va) # 0 THEN GetMetatable(va) ELSE GetMetatable(vb)

\* the metamethod found there, None when there is none
SolveMetaFunc(va, vb, name) ==
    IF SolveMeta(va, vb) = 0 THEN None
    ELSE TableGet(tables[SolveMeta(va, vb)], Str(name))

\* compare() for EQ when no metamethod is called
CompareEQ(va, vb) ==
    IF CompareCheck(va, vb) THEN Raw(va) = Raw(vb) ELSE FALSE

\* Python's order on the string literals of the programs (by code point)
StrRank(x) ==
    CASE x = "1" -> 1 [] x = "2" -> 2 [] x = "a" -> 3 [] x = "b" -> 4
      [] OTHER -> 0

\* compare() for LT and LE when no metamethod is called
CompareOrd(op, va, vb) ==
    IF ~CompareCheck(va, vb) THEN FALSE
    ELSE IF is_number(va)
    THEN IF op = "LT" THEN va.n < vb.n ELSE va.n <= vb.n
    ELSE IF op = "LT" THEN StrRank(va.s) < StrRank(vb.s)
                      ELSE StrRank(va.s) <= StrRank(vb.s)

(***************************************************************************)
(* The programs.  Init draws the chunk from these families; each is a      *)
(* flat sequence of prototypes, the main chunk first.                      *)
(***************************************************************************)
KMain ==
    <<Str("print"), Str("getmetatable"), Str("pairs"),
      Num(11), Num(12), Num(21), Num(31), Num(32), Num(41),
      Nil, Bool(TRUE), Bool(FALSE), Num(1), Num(2),
      Str("a"), Str("b"), Str("1"), Num(0), Num(3), Str("2"),
      Str("setmetatable"), Str("__index"), Str("__call"),
      Num(-1), Num(10), Str(""), Str("__unm")>>

\* the constant index (Bx, or RK - 256) of a constant
K(v) == (CHOOSE i \in 1..Len(KMain) : KMain[i] = v) - 1

Natives == {"print", "getmetatable", "pairs"}

MainStackSize == MaxArgs + MaxRets + 2
FStackSize == MaxRets + 2

\* main: R0 := target; R1, R2 := arguments; CALL 0 B C; RETURN.
\* callee: np parameters, LOADK into its last register, RETURN rA rB.
CallProg(tgt, targ, B, C, np, va, rA, rB) ==
    <<Proto(0, TRUE, MainStackSize, 0,
            <<IF tgt = "lua" THEN ABx("CLOSURE", 0, 0)
                             ELSE ABx("GETGLOBAL", 0, K(Str(tgt))),
              IF targ THEN ABC("NEWTABLE", 1, 0, 0)
                      ELSE ABx("LOADK", 1, K(Num(11))),
              ABx("LOADK", 2, K(Num(12))),
              ABC("CALL", 0, B, C),
              ABC("RETURN", 0, 1, 0)>>,
            KMain, <<2>>),
      Proto(np, va, MaxArgs + 1, 0,
            <<ABx("LOADK", MaxArgs, K(Num(21))),
              ABC("RETURN", rA, rB, 0)>>,
            KMain, <<>>)>>

CallProgs ==
    {CallProg(x[1], x[2], x[3], x[4], 0, FALSE, 0, 1) :
        x \in Natives \X BOOLEAN \X (0..(MaxArgs + 1)) \X (0..(MaxRets + 1))}
    \cup
    {CallProg("lua", FALSE, x[1], x[2], x[3], x[4], x[5], x[6]) :
        x \in {y \in (0..(MaxArgs + 1)) \X (0..(MaxRets + 1)) \X (0..MaxArgs)
                     \X BOOLEAN \X (0..MaxArgs) \X (0..(MaxArgs + 2)) :
                 y[5] + y[6] - 1 <= MaxArgs + 1}}

\* main calls f(first, second); f(x, y) calls x(y) and returns; h is a
\* leaf.  With first = "f" the closure f calls itself.
RecProg(first, second, C0, C1, rA, rB) ==
    <<Proto(0, TRUE, MainStackSize, 0,
            <<ABx("CLOSURE", 0, 0),
              IF first = "f" THEN ABC("MOVE", 1, 0, 0)
                             ELSE ABx("CLOSURE", 1, 1),
              IF second = "f" THEN ABC("MOVE", 2, 0, 0)
                              ELSE ABx("CLOSURE", 2, 1),
              ABC("CALL", 0, 3, C0),
              ABC("RETURN", 0, 1, 0)>>,
            KMain, <<2, 3>>),
      Proto(2, FALSE, FStackSize, 0,
            <<ABC("MOVE", 2, 0, 0),
              ABC("MOVE", 3, 1, 0),
              ABC("CALL", 2, 2, C1),
              ABC("RETURN", rA, rB, 0)>>,
            KMain, <<>>),
      Proto(1, FALSE, 2, 0,
            <<ABx("LOADK", 0, K(Num(31))),
              ABx("LOADK", 1, K(Num(32))),
              ABC("RETURN", 0, 3, 0)>>,
            KMain, <<>>)>>

RecProgs ==
    {RecProg(x[1], x[2], x[3], x[4], x[5], x[6]) :
        x \in {y \in {"f", "h"} \X {"f", "h"} \X (0..(MaxRets + 1))
                     \X (0..(MaxRets + 1)) \X (0..2) \X (0..FStackSize) :
                 y[5] + y[6] - 1 <= FStackSize}}

\* main calls f(target, table); f(x, y) is "return x(y)".  With loop the
\* callee is f2(x) = "return x(x)", which called on itself never returns.
TailProg(tgt, C0, loop) ==
    <<Proto(0, TRUE, MainStackSize, 0,
            <<ABx("CLOSURE", 0, IF loop THEN 2 ELSE 0),
              IF tgt = "f" THEN ABC("MOVE", 1, 0, 0)
              ELSE IF tgt = "g" THEN ABx("CLOSURE", 1, 1)
              ELSE ABx("GETGLOBAL", 1, K(Str(tgt))),
              ABC("NEWTABLE", 2, 0, 0),
              ABC("CALL", 0, 3, C0),
              ABC("RETURN", 0, 1, 0)>>,
            KMain, <<2, 3, 4>>),
      Proto(2, FALSE, 4, 0,
            <<ABC("MOVE", 2, 0, 0),
              ABC("MOVE", 3, 1, 0),
              ABC("TAILCALL", 2, 2, 0),
              ABC("RETURN", 2, 0, 0)>>,
            KMain, <<>>),
      Proto(1, FALSE, 2, 0,
            <<ABx("LOADK", 1, K(Num(41))),
              ABC("RETURN", 0, 3, 0)>>,
            KMain, <<>>),
      Proto(1, FALSE, 3, 0,
            <<ABC("MOVE", 1, 0, 0),
              ABC("MOVE", 2, 0, 0),
              ABC("TAILCALL", 1, 2, 0),
              ABC("RETURN", 1, 0, 0)>>,
            KMain, <<>>)>>

TailProgs ==
    {TailProg(x[1], x[2], x[3]) :
        x \in ({"f", "g"} \cup Natives) \X (0..(MaxRets + 1)) \X BOOLEAN}

\* main: R0 := va; R1 := vb; EQ A 0 RK; JMP; LOADK; LOADK; RETURN
EqConsts ==
    {Nil, Bool(TRUE), Bool(FALSE), Num(1), Num(2), Str("a"), Str("b"),
     Str("1")}
EqSources ==
    {[kind |-> "k", v |-> v] : v \in EqConsts}
    \cup {[kind |-> x, v |-> Nil] : x \in {"table", "closure", "native"}}

Load(r, src) ==
    CASE src.kind = "k" -> ABx("LOADK", r, K(src.v))
      [] src.kind = "table" -> ABC("NEWTABLE", r, 0, 0)
      [] src.kind = "closure" -> ABx("CLOSURE", r, 0)
      [] src.kind = "native" -> ABx("GETGLOBAL", r, K(Str("print")))
      [] src.kind = "same" -> ABC("MOVE", r, 0, 0)

EqProg(sa, sb, A, kc) ==
    <<Proto(0, TRUE, 3, 0,
            <<Load(0, sa),
              Load(1, sb),
              ABC("EQ", A, 0, IF kc THEN 256 + K(sb.v) ELSE 1),
              AsBx("JMP", 0, 1),
              ABx("LOADK", 2, K(Num(1))),
              ABx("LOADK", 2, K(Num(2))),
              ABC("RETURN", 0, 1, 0)>>,
            KMain, <<2>>),
      Proto(0, FALSE, 2, 0, <<ABC("RETURN", 0, 1, 0)>>, KMain, <<>>)>>

EqProgs ==
    {EqProg(x[1], x[2], x[3], x[4]) :
        x \in {y \in EqSources
                     \X (EqSources \cup {[kind |-> "same", v |-> Nil]})
                     \X {0, 1} \X BOOLEAN :
                 y[4] => y[2].kind = "k"}}

\* main: R0 := va; R1 := vb; LT or LE A RK RK; JMP; LOADK; LOADK; RETURN
CmpProg(op, va, vb, A, kb, kc) ==
    <<Proto(0, TRUE, 3, 0,
            <<ABx("LOADK", 0, K(va)),
              ABx("LOADK", 1, K(vb)),
              ABC(op, A, IF kb THEN 256 + K(va) ELSE 0,
                         IF kc THEN 256 + K(vb) ELSE 1),
              AsBx("JMP", 0, 1),
              ABx("LOADK", 2, K(Num(1))),
              ABx("LOADK", 2, K(Num(2))),
              ABC("RETURN", 0, 1, 0)>>,
            KMain, <<>>)>>

CmpProgs ==
    {CmpProg(x[1], x[2], x[3], x[4], x[5], x[6]) :
        x \in {"LT", "LE"} \X {Num(1), Num(2), Str("a"), Nil}
                \X {Num(1), Num(2), Str("a"), Str("b")}
                \X {0, 1} \X BOOLEAN \X BOOLEAN}

\* main: R0 := va; R1 := vb; OP 2 RK RK; RETURN 2 2
ArithConsts ==
    {Nil, Bool(TRUE), Num(0), Num(1), Num(2), Str("1"), Str("2"), Str("a")}
ArithSources ==
    {[kind |-> "k", v |-> v] : v \in ArithConsts}
    \cup {[kind |-> x, v |-> Nil] : x \in {"table", "native"}}

ArithProg(op, sa, sb, kb, kc) ==
    <<Proto(0, TRUE, 3, 0,
            <<Load(0, sa),
              Load(1, sb),
              ABC(op, 2, IF kb THEN 256 + K(sa.v) ELSE 0,
                         IF kc THEN 256 + K(sb.v) ELSE 1),
              ABC("RETURN", 2, 2, 0)>>,
            KMain, <<>>)>>

\* the chunk "return 1 + 2 * 3" without constant folding
ExprProg ==
    <<Proto(0, TRUE, 2, 0,
            <<ABC("MUL", 0, 256 + K(Num(2)), 256 + K(Num(3))),
              ABC("ADD", 0, 256 + K(Num(1)), 0),
              ABC("RETURN", 0, 2, 0)>>,
            KMain, <<>>)>>

ArithProgs ==
    {ArithProg(x[1], x[2], x[3], x[4], x[5]) :
        x \in {y \in {"ADD", "SUB", "MUL", "DIV", "MOD", "POW"}
                     \X ArithSources
                     \X (ArithSources \cup {[kind |-> "same", v |-> Nil]})
                     \X BOOLEAN \X BOOLEAN :
                 /\ y[4] => y[2].kind = "k"
                 /\ y[5] => y[3].kind = "k"}}
    \cup {ExprProg}

\* main: local x = 0; set and get both capture x; set() stores v in its
\* upvalue; get() reads its upvalue into R2; main then reads x
ShareProg(v) ==
    <<Proto(0, TRUE, 4, 0,
            <<ABx("LOADK", 0, K(Num(0))),
              ABx("CLOSURE", 1, 0), ABC("MOVE", 0, 0, 0),
              ABx("CLOSURE", 2, 1), ABC("MOVE", 0, 0, 0),
              ABC("CALL", 1, 1, 1),
              ABC("CALL", 2, 1, 2),
              ABC("MOVE", 3, 0, 0),
              ABC("RETURN", 2, 3, 0)>>,
            KMain, <<2, 3>>),
      Proto(0, FALSE, 2, 1,
            <<ABx("LOADK", 0, K(v)),
              ABC("SETUPVAL", 0, 0, 0),
              ABC("RETURN", 0, 1, 0)>>,
            KMain, <<>>),
      Proto(0, FALSE, 2, 1,
            <<ABC("GETUPVAL", 0, 0, 0),
              ABC("RETURN", 0, 2, 0)>>,
            KMain, <<>>)>>

\* main: f = c(); then n calls f(), the k-th into R[k].  c is
\* "local x = 0; return function() x = x + 1; return x end"
MaxCalls == 3

CounterCalls(n) ==
    IF n = 0 THEN <<>>
    ELSE [i \in 1..(2 * n) |->
            IF i % 2 = 1 THEN ABC("MOVE", (i + 1) \div 2, 0, 0)
                         ELSE ABC("CALL", i \div 2, 1, 2)]

CounterProg(n) ==
    <<Proto(0, TRUE, MaxCalls + 2, 0,
            <<ABx("CLOSURE", 0, 0), ABC("CALL", 0, 1, 2)>>
            \o CounterCalls(n)
            \o <<ABC("RETURN", 1, n + 1, 0)>>,
            KMain, <<2>>),
      Proto(0, FALSE, 2, 0,
            <<ABx("LOADK", 0, K(Num(0))),
              ABx("CLOSURE", 1, 0), ABC("MOVE", 0, 0, 0),
              ABC("RETURN", 1, 2, 0)>>,
            KMain, <<3>>),
      Proto(0, FALSE, 2, 1,
            <<ABC("GETUPVAL", 0, 0, 0),
              ABC("ADD", 0, 0, 256 + K(Num(1))),
              ABC("SETUPVAL", 0, 0, 0),
              ABC("RETURN", 0, 2, 0)>>,
            KMain, <<>>)>>

UpvalProgs ==
    {ShareProg(v) : v \in {Num(2), Str("a"), Bool(TRUE)}}
    \cup {CounterProg(n) : n \in 1..MaxCalls}

(***************************************************************************)
(* Metatable programs.                                                     *)
(*   local t, mt, u = {}, {}, {}                                           *)
(*   u.a = 11; t.a = 12 or t.b = 12                                        *)
(*   mt[mkey] = target            -- u, t, a Lua function, a native, 12    *)
(*   setmetatable(t, mt)          -- or not                                *)
(*   return t.a  or  t:a  or  t(21, 31)                                    *)
(* The Lua function returns its parameter number sel.                      *)
(***************************************************************************)
MetaProg(mkey, target, attach, own, op, B, sel) ==
    <<Proto(0, TRUE, 6, 0,
            <<ABC("NEWTABLE", 0, 0, 0),
              ABC("NEWTABLE", 1, 0, 0),
              ABC("NEWTABLE", 2, 0, 0),
              ABC("SETTABLE", 2, 256 + K(Str("a")), 256 + K(Num(11))),
              ABC("SETTABLE", 0, 256 + K(Str(IF own THEN "a" ELSE "b")),
                  256 + K(Num(12))),
              CASE target = "u" -> ABC("MOVE", 3, 2, 0)
                [] target = "t" -> ABC("MOVE", 3, 0, 0)
                [] target = "closure" -> ABx("CLOSURE", 3, 0)
                [] target = "native" ->
                     ABx("GETGLOBAL", 3, K(Str("getmetatable")))
                [] target = "number" -> ABx("LOADK", 3, K(Num(12))),
              ABC("SETTABLE", 1, 256 + K(Str(mkey)), 3),
              ABx("GETGLOBAL", 3, K(Str("setmetatable"))),
              ABC("MOVE", 4, 0, 0),
              ABC("MOVE", 5, 1, 0)>>
            \o (IF attach THEN <<ABC("CALL", 3, 3, 1)>> ELSE <<>>)
            \o <<ABx("LOADK", 1, K(Num(21))),
                 ABx("LOADK", 2, K(Num(31))),
                 CASE op = "GETTABLE" ->
                        ABC("GETTABLE", 3, 0, 256 + K(Str("a")))
                   [] op = "SELF" -> ABC("SELF", 3, 0, 256 + K(Str("a")))
                   [] op = "CALL" -> ABC("CALL", 0, B, 2),
                 CASE op = "GETTABLE" -> ABC("RETURN", 3, 2, 0)
                   [] op = "SELF" -> ABC("RETURN", 3, 3, 0)
                   [] op = "CALL" -> ABC("RETURN", 0, 2, 0)>>,
            KMain, <<2>>),
      Proto(3, FALSE, 3, 0, <<ABC("RETURN", sel, 2, 0)>>, KMain, <<>>)>>

MetaProgs ==
    {MetaProg(x[1], x[2], x[3], x[4], x[5], x[6], x[7]) :
        x \in {y \in {"__index", "__call", "b"}
                     \X {"u", "t", "closure", "native", "number"}
                     \X BOOLEAN \X BOOLEAN
                     \X {"GETTABLE", "SELF", "CALL"}
                     \X (0..(MaxArgs + 1)) \X (0..MaxArgs) :
                 /\ y[5] # "CALL" => y[6] = 1
                 /\ y[2] # "closure" => y[7] = 0}}

\* local sum = 0; for i = init, limit, step do sum = sum + i end;
\* return sum
ForProg(init, limit, step) ==
    <<Proto(0, TRUE, 5, 0,
            <<ABx("LOADK", 0, K(Num(0))),
              ABx("LOADK", 1, K(init)),
              ABx("LOADK", 2, K(limit)),
              ABx("LOADK", 3, K(step)),
              AsBx("FORPREP", 1, 1),
              ABC("ADD", 0, 0, 4),
              AsBx("FORLOOP", 1, -2),
              ABC("RETURN", 0, 2, 0)>>,
            KMain, <<>>)>>

ForProgs ==
    {ForProg(x[1], x[2], x[3]) :
        x \in {Num(0), Num(1), Num(3), Str("1"), Nil}
              \X {Num(0), Num(1), Num(3), Num(10), Str("2")}
              \X {Num(-1), Num(1), Num(2), Str("1")}}

\* local x = 10
\* local function f() local y = 3; return function() ... end end
\* return f()()
\* The inner function has nups upvalues; the two instructions after its
\* CLOSURE are p1 and p2, each GETUPVAL 0 0 (x), MOVE 0 0 (y) or LOADK 0 1.
ClosurePseudo(p) ==
    CASE p = "GETUPVAL" -> ABC("GETUPVAL", 0, 0, 0)
      [] p = "MOVE" -> ABC("MOVE", 0, 0, 0)
      [] p = "LOADK" -> ABx("LOADK", 0, K(Num(1)))

ClosureProg(nups, p1, p2) ==
    <<Proto(0, TRUE, 3, 0,
            <<ABx("LOADK", 0, K(Num(10))),
              ABx("CLOSURE", 1, 0), ABC("MOVE", 0, 0, 0),
              ABC("CALL", 1, 1, 2),
              ABC("CALL", 1, 1, 2),
              ABC("RETURN", 1, 2, 0)>>,
            KMain, <<2>>),
      Proto(0, FALSE, 2, 1,
            <<ABx("LOADK", 0, K(Num(3))),
              ABx("CLOSURE", 1, 0), ClosurePseudo(p1), ClosurePseudo(p2),
              ABC("RETURN", 1, 2, 0)>>,
            KMain, <<3>>),
      Proto(0, FALSE, 2, nups,
            <<ABC("GETUPVAL", 0, 0, 0),
              ABC("GETUPVAL", 1, 1, 0),
              ABC("RETURN", 0, 3, 0)>>,
            KMain, <<>>)>>

ClosureProgs ==
    {ClosureProg(x[1], x[2], x[3]) :
        x \in (0..2) \X {"GETUPVAL", "MOVE", "LOADK"}
                     \X {"GETUPVAL", "MOVE", "LOADK"}}

\* do local x = 1; g = function() return x end; x = v; end  -- CLOSE A
\* x = 3 (the register is used again); return g()
\* The write x = v after the closure was made is there or not.
CloseProg(v, write, A) ==
    <<Proto(0, TRUE, 3, 0,
            <<ABx("LOADK", 0, K(Num(1))),
              ABx("CLOSURE", 1, 0), ABC("MOVE", 0, 0, 0)>>
            \o (IF write THEN <<ABx("LOADK", 0, K(v))>> ELSE <<>>)
            \o <<ABC("CLOSE", A, 0, 0),
                 ABx("LOADK", 0, K(Num(3))),
                 ABC("CALL", 1, 1, 2),
                 ABC("RETURN", 1, 2, 0)>>,
            KMain, <<2>>),
      Proto(0, FALSE, 2, 1,
            <<ABC("GETUPVAL", 0, 0, 0),
              ABC("RETURN", 0, 2, 0)>>,
            KMain, <<>>)>>

CloseProgs ==
    {CloseProg(x[1], x[2], x[3]) :
        x \in {Num(2), Str("a"), Nil} \X BOOLEAN \X {0, 1}}

\* local function f(...) local a, b = ...; return a end; return f(11, 12)
\* with nargs arguments and VARARG 0 B
VarargProg(nargs, B) ==
    <<Proto(0, TRUE, 4, 0,
            <<ABx("CLOSURE", 0, 0),
              ABx("LOADK", 1, K(Num(11))),
              ABx("LOADK", 2, K(Num(12))),
              ABC("CALL", 0, nargs + 1, 2),
              ABC("RETURN", 0, 2, 0)>>,
            KMain, <<2>>),
      Proto(0, TRUE, 3, 0,
            <<ABC("VARARG", 0, B, 0),
              ABC("RETURN", 0, 2, 0)>>,
            KMain, <<>>)>>

VarargProgs == {VarargProg(x[1], x[2]) : x \in (0..MaxArgs) \X (0..4)}

\* local t = {v1, v2} with SETLIST 0 B C; when C is 0 the word w follows
SetListProg(v1, B, C, w) ==
    <<Proto(0, TRUE, 3, 0,
            <<ABC("NEWTABLE", 0, 0, 0),
              ABx("LOADK", 1, K(v1)),
              ABx("LOADK", 2, K(Num(12))),
              ABC("SETLIST", 0, B, C)>>
            \o (IF C = 0 THEN <<Decode(w)>> ELSE <<>>)
            \o <<ABC("RETURN", 0, 2, 0)>>,
            KMain, <<>>)>>

SetListProgs ==
    {SetListProg(x[1], x[2], x[3], x[4]) :
        x \in {Num(11), Nil} \X (0..3) \X (0..2) \X {1, 2}}

\* R0 := v; R1 := 1; TEST 0 C or TESTSET 1 0 C; JMP; LOADK; LOADK; RETURN
TestProg(op, v, C) ==
    <<Proto(0, TRUE, 3, 0,
            <<ABx("LOADK", 0, K(v)),
              ABx("LOADK", 1, K(Num(1))),
              IF op = "TEST" THEN ABC("TEST", 0, 0, C)
                             ELSE ABC("TESTSET", 1, 0, C),
              AsBx("JMP", 0, 1),
              ABx("LOADK", 2, K(Num(1))),
              ABx("LOADK", 2, K(Num(2))),
              ABC("RETURN", 0, 4, 0)>>,
            KMain, <<>>)>>

TestProgs ==
    {TestProg(x[1], x[2], x[3]) :
        x \in {"TEST", "TESTSET"}
              \X {Nil, Bool(TRUE), Bool(FALSE), Num(0), Str("a")} \X {0, 1}}

\* local sum = 0
\* for v in f, n, 0 do sum = sum + v end   -- C loop variables
\* return sum
\* where f is function(s, c) if c < s then return c + 1 end end, or print,
\* or the number 1
TForIter(it) ==
    CASE it = "lua" -> ABx("CLOSURE", 1, 0)
      [] it = "print" -> ABx("GETGLOBAL", 1, K(Str("print")))
      [] OTHER -> ABx("LOADK", 1, K(Num(1)))

TForProg(it, n, C) ==
    <<Proto(0, TRUE, 7, 0,
            <<ABx("LOADK", 0, K(Num(0))),
              TForIter(it),
              ABx("LOADK", 2, K(Num(n))),
              ABx("LOADK", 3, K(Num(0))),
              AsBx("JMP", 0, 1),
              ABC("ADD", 0, 0, 4),
              ABC("TFORLOOP", 1, 0, C),
              AsBx("JMP", 0, -3),
              ABC("RETURN", 0, 2, 0)>>,
            KMain, <<2>>),
      Proto(2, FALSE, 3, 0,
            <<ABC("LT", 0, 1, 0),
              AsBx("JMP", 0, 2),
              ABC("ADD", 2, 1, 256 + K(Num(1))),
              ABC("RETURN", 2, 2, 0),
              ABC("RETURN", 0, 1, 0)>>,
            KMain, <<>>)>>

TForProgs ==
    {TForProg(x[1], x[2], x[3]) :
        x \in {"lua", "print", "num"} \X {0, 1, 3} \X {1, 2}}

\* return v1 .. v2 .. v3
ConcatProg(v1, v2, v3) ==
    <<Proto(0, TRUE, 4, 0,
            <<ABx("LOADK", 0, K(v1)),
              ABx("LOADK", 1, K(v2)),
              ABx("LOADK", 2, K(v3)),
              ABC("CONCAT", 3, 0, 2),
              ABC("RETURN", 3, 2, 0)>>,
            KMain, <<>>)>>

ConcatProgs ==
    {ConcatProg(x[1], x[2], x[3]) :
        x \in {Str("a"), Num(1), Str(""), Nil}
              \X {Num(1), Num(10), Str("")} \X {Str("b"), Str("")}}

\* return -v, or local t = setmetatable({}, {__unm = function(x) return
\* 11 end}); return -t
UnmProg(v) ==
    <<Proto(0, TRUE, 6, 0,
            <<ABx("LOADK", 0, K(v)),
              ABC("UNM", 1, 0, 0),
              ABC("RETURN", 1, 2, 0)>>,
            KMain, <<>>)>>

UnmMetaProg(attach) ==
    <<Proto(0, TRUE, 6, 0,
            <<ABC("NEWTABLE", 0, 0, 0),
              ABC("NEWTABLE", 1, 0, 0),
              ABx("CLOSURE", 2, 0),
              ABC("SETTABLE", 1, 256 + K(Str("__unm")), 2),
              ABx("GETGLOBAL", 3, K(Str("setmetatable"))),
              ABC("MOVE", 4, 0, 0),
              ABC("MOVE", 5, 1, 0)>>
            \o (IF attach THEN <<ABC("CALL", 3, 3, 1)>> ELSE <<>>)
            \o <<ABC("UNM", 1, 0, 0),
                 ABC("RETURN", 1, 2, 0)>>,
            KMain, <<2>>),
      Proto(1, FALSE, 2, 0,
            <<ABx("LOADK", 1, K(Num(11))), ABC("RETURN", 1, 2, 0)>>,
            KMain, <<>>)>>

UnmProgs ==
    {UnmProg(v) : v \in {Num(0), Num(3), Num(-1), Bool(TRUE), Bool(FALSE),
                         Nil, Str("1"), Str("a")}}
    \cup {UnmMetaProg(b) : b \in BOOLEAN}

\* local t = {}; local x
\* for i = 1, limit do <body> end; return t
\* where the body is x = i, or t[i] = i, or x = function() return i end
ForCopyBody(kind) ==
    CASE kind = "MOVE" -> <<ABC("MOVE", 5, 4, 0)>>
      [] kind = "SETTABLE" -> <<ABC("SETTABLE", 0, 4, 4)>>
      [] OTHER -> <<ABx("CLOSURE", 5, 0), ABC("MOVE", 0, 4, 0)>>

ForCopyProg(kind, limit) ==
    <<Proto(0, TRUE, 6, 0,
            <<ABC("NEWTABLE", 0, 0, 0),
              ABx("LOADK", 1, K(Num(1))),
              ABx("LOADK", 2, K(Num(limit))),
              ABx("LOADK", 3, K(Num(1))),
              AsBx("FORPREP", 1, Len(ForCopyBody(kind)))>>
            \o ForCopyBody(kind)
            \o <<AsBx("FORLOOP", 1, -(Len(ForCopyBody(kind)) + 1)),
                 ABC("RETURN", 0, 2, 0)>>,
            KMain, <<2>>),
      Proto(0, FALSE, 2, 1,
            <<ABC("GETUPVAL", 0, 0, 0), ABC("RETURN", 0, 2, 0)>>,
            KMain, <<>>)>>

ForCopyProgs ==
    {ForCopyProg(x[1], x[2]) :
        x \in {"MOVE", "SETTABLE", "CLOSURE"} \X {1, 3}}

\* local t = {}; local mt = {} or nil or 12; return setmetatable(t, mt)
\* with C - 1 results asked for
SetMtProg(mt, C) ==
    <<Proto(0, TRUE, 5, 0,
            <<ABC("NEWTABLE", 0, 0, 0),
              CASE mt = "table" -> ABC("NEWTABLE", 1, 0, 0)
                [] mt = "nil" -> ABx("LOADK", 1, K(Nil))
                [] mt = "number" -> ABx("LOADK", 1, K(Num(12))),
              ABx("GETGLOBAL", 2, K(Str("setmetatable"))),
              ABC("MOVE", 3, 0, 0),
              ABC("MOVE", 4, 1, 0),
              ABC("CALL", 2, 3, C),
              ABC("RETURN", 2, 2, 0)>>,
            KMain, <<>>)>>

SetMtProgs ==
    {SetMtProg(x[1], x[2]) : x \in {"table", "nil", "number"} \X (0..3)}

Programs == CallProgs \cup RecProgs \cup TailProgs \cup EqProgs
            \cup ArithProgs \cup UpvalProgs \cup MetaProgs \cup ForProgs
            \cup SetMtProgs \cup CmpProgs \cup ClosureProgs \cup CloseProgs
            \cup VarargProgs
            \cup SetListProgs
            \cup TestProgs
            \cup TForProgs
            \cup ConcatProgs
            \cup UnmProgs
            \cup ForCopyProgs

\* no chunk file is involved once the main prototype is decoded
NoPyLua == [bytes |-> <<>>, done |-> FALSE, header |-> <<>>, main |-> FALSE]

(***************************************************************************)
(* LuaState.__init__                                                       *)
(***************************************************************************)
Builtins == <<"print", "getmetatable", "setmetatable", "next", "pairs">>

\* LuaState.register, for each builtin in turn
RECURSIVE Register(_, _)
Register(T, i) ==
    IF i > Len(Builtins) THEN T
    ELSE Register(TableSet(T, Str(Builtins[i]), PClosureV(i)), i + 1)

\* Proto.__init__ reads every constant into a Value object of its own
Decoded(prog) ==
    [p \in DOMAIN prog |->
        [prog[p] EXCEPT !.consts =
            [i \in DOMAIN @ |->
                IF is_number(@[i]) \/ is_string(@[i])
                THEN Obj(@[i], p * (Len(KMain) + 1) + i)
                ELSE @[i]]]]

Init ==
    /\ \E prog \in Programs : protos = Decoded(prog)
    /\ nobj = (Len(protos) + 1) * (Len(KMain) + 1)
    /\ lclos = <<NewLClosure(protos, 1)>>
    /\ pclos = [i \in 1..Len(Builtins) |-> NewPClosure(Builtins[i])]
    /\ tables = <<>>
    /\ globals = Register(EmptyTable, 1)
    /\ typemt = EmptyTable
    /\ pylua = NoPyLua
    /\ call_info = <<LRef(1)>>
    /\ activations = <<>>
    /\ inst = NoInst
    /\ err = ""
    /\ halted = FALSE
    /\ lastpy = [id |-> 0, ret_count |-> 0]
    /\ lastset = [done |-> FALSE, key |-> Nil, value |-> Nil, len |-> 0]

(***************************************************************************)
(* The opcode handlers (class Operator) and the dispatch loop.  Every      *)
(* handler runs after fetch has advanced the pc of the top closure.        *)
(***************************************************************************)
Front(s) == SubSeq(s, 1, Len(s) - 1)

\* an exception leaves the handler: the run is over
Fail(e) ==
    /\ err' = e
    /\ lclos' = AfterFetch
    /\ UNCHANGED <<pclos, call_info, activations>>

MOVE ==
    /\ CanFetch /\ Fetched.op = "MOVE"
    /\ inst' = Fetched
    /\ IF InReg(Stack, Fetched.a) /\ InReg(Stack, Fetched.b)
       THEN /\ lclos' = SetReg(AfterFetch, Cur, Fetched.a, Stack[Fetched.b + 1])
            /\ err' = err
       ELSE /\ lclos' = AfterFetch
            /\ err' = "IndexError"
    /\ UNCHANGED <<protos, pclos, tables, globals, call_info, activations,
                   halted, lastpy, lastset, nobj, typemt, pylua>>

LOADK ==
    /\ CanFetch /\ Fetched.op = "LOADK"
    /\ inst' = Fetched
    /\ IF InReg(Stack, Fetched.a) /\ Fetched.bx < Len(CurProto.consts)
       THEN /\ lclos' = SetReg(AfterFetch, Cur, Fetched.a,
                               CurProto.consts[Fetched.bx + 1])
            /\ err' = err
       ELSE /\ lclos' = AfterFetch
            /\ err' = "IndexError"
    /\ UNCHANGED <<protos, pclos, tables, globals, call_info, activations,
                   halted, lastpy, lastset, nobj, typemt, pylua>>

\* LuaState.get_global: globals.get(Value(name)), Nil when absent
GETGLOBAL ==
    /\ CanFetch /\ Fetched.op = "GETGLOBAL"
    /\ inst' = Fetched
    /\ IF InReg(Stack, Fetched.a) /\ Fetched.bx < Len(CurProto.consts)
       THEN LET v == TableGet(globals, CurProto.consts[Fetched.bx + 1])
            IN /\ lclos' = SetReg(AfterFetch, Cur, Fetched.a,
                                  IF v = None THEN Nil ELSE v)
               /\ err' = err
       ELSE /\ lclos' = AfterFetch
            /\ err' = "IndexError"
    /\ UNCHANGED <<protos, pclos, tables, globals, call_info, activations,
                   halted, lastpy, lastset, nobj, typemt, pylua>>

NEWTABLE ==
    /\ CanFetch /\ Fetched.op = "NEWTABLE"
    /\ inst' = Fetched
    /\ IF InReg(Stack, Fetched.a)
       THEN /\ tables' = Append(tables, EmptyTable)
            /\ lclos' = SetReg(AfterFetch, Cur, Fetched.a,
                               TableV(Len(tables) + 1))
            /\ err' = err
       ELSE /\ tables' = tables
            /\ lclos' = AfterFetch
            /\ err' = "IndexError"
    /\ UNCHANGED <<protos, pclos, globals, call_info, activations,
                   halted, lastpy, lastset, nobj, typemt, pylua>>

\* GETTABLE: Table.get on the table in R[B], without any metatable;
\* result is what Table.get gave when R[B] is a table
GetTable(a, table_value, result) ==
    IF table_value = None
    THEN lclos' = AfterFetch /\ err' = "AttributeError"
    ELSE IF ~is_table(table_value)
    THEN lclos' = AfterFetch /\ err' = "TypeError"
    ELSE IF InReg(Stack, a)
    THEN /\ lclos' = SetReg(AfterFetch, Cur, a,
                            IF result = None THEN Nil ELSE result)
         /\ err' = err
    ELSE lclos' = AfterFetch /\ err' = "IndexError"

GETTABLE ==
    /\ CanFetch /\ Fetched.op = "GETTABLE"
    /\ inst' = Fetched
    /\ IF InReg(Stack, Fetched.b) /\ RKok(Fetched.c)
       THEN GetTable(Fetched.a, Stack[Fetched.b + 1],
                     IF is_table(Stack[Fetched.b + 1])
                     THEN TableGet(tables[Stack[Fetched.b + 1].n],
                                   RK(Fetched.c))
                     ELSE None)
       ELSE lclos' = AfterFetch /\ err' = "IndexError"
    /\ UNCHANGED <<protos, pclos, tables, globals, call_info, activations,
                   halted, lastpy, lastset, nobj, typemt, pylua>>

\* SETTABLE: Table.set on the table in R[A]
SETTABLE ==
    /\ CanFetch /\ Fetched.op = "SETTABLE"
    /\ inst' = Fetched
    /\ lclos' = AfterFetch
    /\ IF InReg(Stack, Fetched.a) /\ RKok(Fetched.b) /\ RKok(Fetched.c)
       THEN IF Stack[Fetched.a + 1] = None
            THEN tables' = tables /\ err' = "AttributeError"
            ELSE IF ~is_table(Stack[Fetched.a + 1])
            THEN tables' = tables /\ err' = "TypeError"
            ELSE IF RK(Fetched.c) = None
            THEN tables' = tables /\ err' = "AttributeError"
            ELSE /\ tables' = [tables EXCEPT
                                 ![Stack[Fetched.a + 1].n] =
                                     TableSet(@, RK(Fetched.b), RK(Fetched.c))]
                 /\ err' = err
       ELSE tables' = tables /\ err' = "IndexError"
    /\ UNCHANGED <<protos, pclos, globals, call_info, activations,
                   halted, lastpy, lastset, nobj, typemt, pylua>>

\* CLOSURE: the new closure is stored in R[A] first, then one
\* pseudo-instruction per upvalue is fetched
ClosureUpvalOk(st, c, p, pc) ==
    /\ pc + p.nups <= Len(Code)
    /\ \A i \in 1..p.nups :
          LET u == Code[pc + i]
          IN \/ u.op = "GETUPVAL" /\ u.b < Len(c.upvalues)
             \/ u.op = "MOVE" /\ InReg(st, u.b)

\* a wrong binding that takes every upvalue from a register (what C29 must
\* rule out)
ClosureUpvaluesMove(st, c, p, pc) ==
    [i \in 1..p.nups |-> st[(Code[pc + i].b % Len(st)) + 1]]

ClosureUpvalues(st, c, p, pc) ==
    [i \in 1..p.nups |->
        LET u == Code[pc + i]
        IN IF u.op = "GETUPVAL" THEN c.upvalues[u.b + 1] ELSE st[u.b + 1]]

ClosureUpfrom(c, p, pc) ==
    [i \in 1..p.nups |->
        LET u == Code[pc + i]
        IN IF u.op = "GETUPVAL" THEN c.upfrom[u.b + 1]
           ELSE [frame |-> Cur, reg |-> u.b]]

CLOSURE ==
    /\ CanFetch /\ Fetched.op = "CLOSURE"
    /\ inst' = Fetched
    /\ IF InReg(Stack, Fetched.a) /\ Fetched.bx < Len(CurProto.protos)
       THEN LET pi == CurProto.protos[Fetched.bx + 1]
                id == Len(lclos) + 1
                pc == AfterFetch[Cur].pc
                st == [Stack EXCEPT ![Fetched.a + 1] = LClosureV(id)]
            IN IF ClosureUpvalOk(st, lclos[Cur], protos[pi], pc)
               THEN /\ lclos' =
                         Append([AfterFetch EXCEPT
                                    ![Cur].stack = st,
                                    ![Cur].pc = pc + protos[pi].nups],
                                [NewLClosure(protos, pi) EXCEPT
                                    !.upvalues = ClosureUpvalues(
                                        st, lclos[Cur], protos[pi], pc),
                                    !.upfrom = ClosureUpfrom(
                                        lclos[Cur], protos[pi], pc)])
                    /\ err' = err
               ELSE /\ lclos' = AfterFetch
                    /\ err' = "ValueError"
       ELSE /\ lclos' = AfterFetch
            /\ err' = "IndexError"
    /\ UNCHANGED <<protos, pclos, tables, globals, call_info, activations,
                   halted, lastpy, lastset, nobj, typemt, pylua>>

\* CLOSE: the handler is empty ("Close upvalues not implemented yet")
CLOSE ==
    /\ CanFetch /\ Fetched.op = "CLOSE"
    /\ inst' = Fetched
    /\ lclos' = AfterFetch
    /\ UNCHANGED <<protos, pclos, tables, globals, call_info, activations,
                   err, halted, lastpy, lastset, nobj, typemt, pylua>>

\* VARARG: stack[a + i] = varargs[i] for i in range(b - 1), b being
\* len(varargs) + 1 when B is 0.  The first index that is out of range in
\* either list raises IndexError, after the writes before it.
VarargWrite(st, va, a, k) ==
    [i \in 1..Len(st) |-> IF a + 1 <= i /\ i <= a + k THEN va[i - a] ELSE st[i]]

VarargCount(st, va, a, want) ==
    IF want <= Len(va) /\ want <= Len(st) - a THEN want
    ELSE IF Len(va) <= Len(st) - a THEN Len(va)
    ELSE Len(st) - a

VarargDone(st, va, a, want) ==
    /\ lclos' = [AfterFetch EXCEPT ![Cur].stack =
                    VarargWrite(st, va, a, VarargCount(st, va, a, want))]
    /\ err' = IF VarargCount(st, va, a, want) < want THEN "IndexError" ELSE err

VARARG ==
    /\ CanFetch /\ Fetched.op = "VARARG"
    /\ inst' = Fetched
    /\ VarargDone(Stack, lclos[Cur].varargs, Fetched.a,
                  IF Fetched.b = 0 THEN Len(lclos[Cur].varargs)
                  ELSE Fetched.b - 1)
    /\ UNCHANGED <<protos, pclos, tables, globals, call_info, activations,
                   halted, lastpy, lastset, nobj, typemt, pylua>>

\* SETLIST: table.set(idx + i, stack[a + i]) for i = 1 .. b, in order, with
\* idx = (c - 1) * 50; an index past the register list raises IndexError
\* after the sets before it
RECURSIVE SetListLoop(_, _, _, _, _, _)
SetListLoop(T, st, a, idx, i, b) ==
    IF i > b THEN [T |-> T, err |-> ""]
    ELSE IF ~InReg(st, a + i) THEN [T |-> T, err |-> "IndexError"]
    ELSE SetListLoop(TableSet(T, Num(idx + i), st[a + i + 1]),
                     st, a, idx, i + 1, b)

\* a wrong fetch that leaves the word after SETLIST to be dispatched (what
\* C32 must rule out)
SetListNextStay(pc, c) == pc + 1

\* the program counter after SETLIST: a C of 0 fetches one more word
SetListNext(pc, c) == IF c = 0 THEN pc + 2 ELSE pc + 1

SetListRun(t, r, pc) ==
    /\ tables' = [tables EXCEPT ![t] = r.T]
    /\ err' = IF r.err = "" THEN err ELSE r.err
    /\ lclos' = [lclos EXCEPT ![Cur].pc = pc]

SETLIST ==
    /\ CanFetch /\ Fetched.op = "SETLIST"
    /\ inst' = Fetched
    /\ IF ~InReg(Stack, Fetched.a)
       THEN /\ err' = "IndexError"
            /\ lclos' = AfterFetch
            /\ tables' = tables
       ELSE IF ~is_table(Stack[Fetched.a + 1])
       THEN /\ err' = "TypeError"
            /\ lclos' = AfterFetch
            /\ tables' = tables
       ELSE IF Fetched.c = 0 /\ lclos[Cur].pc + 1 >= Len(Code)
       THEN /\ err' = "AttributeError"
            /\ lclos' = AfterFetch
            /\ tables' = tables
       ELSE SetListRun(Stack[Fetched.a + 1].n,
                       SetListLoop(tables[Stack[Fetched.a + 1].n], Stack,
                                   Fetched.a,
                                   ((IF Fetched.c = 0
                                     THEN InstructionWord(Code[lclos[Cur].pc + 2])
                                     ELSE Fetched.c) - 1) * 50,
                                   1,
                                   IF Fetched.b = 0
                                   THEN Len(Stack) - Fetched.a - 1
                                   ELSE Fetched.b),
                       SetListNext(lclos[Cur].pc, Fetched.c))
    /\ UNCHANGED <<protos, pclos, globals, call_info, activations,
                   halted, lastpy, lastset, nobj, typemt, pylua>>

\* a wrong truth value that takes 0 for false (what C33 must rule out)
TruthZeroFalse(v) == get_boolean(v) /\ Raw(v) # Num(0)

\* the truth value TEST and TESTSET branch on
Truth(v) == get_boolean(v)

\* TEST: skip the next instruction when the truth of R[A] is not C
TEST ==
    /\ CanFetch /\ Fetched.op = "TEST"
    /\ inst' = Fetched
    /\ IF InReg(Stack, Fetched.a)
       THEN /\ lclos' = [AfterFetch EXCEPT ![Cur].pc =
                            IF Truth(Stack[Fetched.a + 1]) # (Fetched.c # 0)
                            THEN @ + 1 ELSE @]
            /\ err' = err
       ELSE /\ lclos' = AfterFetch
            /\ err' = "IndexError"
    /\ UNCHANGED <<protos, pclos, tables, globals, call_info, activations,
                   halted, lastpy, lastset, nobj, typemt, pylua>>

\* TESTSET: R[A] := R[B] when the truth of R[B] is C, else skip
TESTSET ==
    /\ CanFetch /\ Fetched.op = "TESTSET"
    /\ inst' = Fetched
    /\ IF InReg(Stack, Fetched.b)
       THEN IF Truth(Stack[Fetched.b + 1]) = (Fetched.c # 0)
            THEN IF InReg(Stack, Fetched.a)
                 THEN /\ lclos' = SetReg(AfterFetch, Cur, Fetched.a,
                                         Stack[Fetched.b + 1])
                      /\ err' = err
                 ELSE /\ lclos' = AfterFetch
                      /\ err' = "IndexError"
            ELSE /\ lclos' = [AfterFetch EXCEPT ![Cur].pc = @ + 1]
                 /\ err' = err
       ELSE /\ lclos' = AfterFetch
            /\ err' = "IndexError"
    /\ UNCHANGED <<protos, pclos, tables, globals, call_info, activations,
                   halted, lastpy, lastset, nobj, typemt, pylua>>

\* Value.get_string: the text of a number (an int here), the string
\* itself, else None (some is FALSE)
get_string(v) ==
    IF is_number(v) THEN [some |-> TRUE, s |-> ToString(v.n)]
    ELSE IF is_string(v) THEN [some |-> TRUE, s |-> v.s]
    ELSE [some |-> FALSE, s |-> ""]

\* the loop of CONCAT over R[i]..R[c]: `if s:` takes None and the empty
\* string alike
RECURSIVE ConcatLoop(_, _, _, _)
ConcatLoop(st, i, c, strings) ==
    IF i > c THEN [err |-> "", s |-> strings]
    ELSE IF ~InReg(st, i) THEN [err |-> "IndexError", s |-> strings]
    ELSE IF get_string(st[i + 1]).some /\ get_string(st[i + 1]).s # ""
    THEN ConcatLoop(st, i + 1, c, strings \o get_string(st[i + 1]).s)
    ELSE [err |-> "TypeError", s |-> strings]

ConcatStore(r, a) ==
    IF r.err # "" THEN Fail(r.err) /\ nobj' = nobj
    ELSE IF ~InReg(Stack, a) THEN Fail("IndexError") /\ nobj' = nobj
    ELSE /\ lclos' = SetReg(AfterFetch, Cur, a, Obj(Str(r.s), nobj + 1))
         /\ nobj' = nobj + 1
         /\ UNCHANGED <<pclos, call_info, activations, err>>

\* CONCAT: R[A] := R[B] .. ... .. R[C]
CONCAT ==
    /\ CanFetch /\ Fetched.op = "CONCAT"
    /\ inst' = Fetched
    /\ ConcatStore(ConcatLoop(Stack, Fetched.b, Fetched.c, ""), Fetched.a)
    /\ UNCHANGED <<protos, tables, globals, halted, lastpy, lastset, typemt, pylua>>

\* GETUPVAL: R[A] := upvalues[B], Nil when the closure has no such upvalue
GETUPVAL ==
    /\ CanFetch /\ Fetched.op = "GETUPVAL"
    /\ inst' = Fetched
    /\ IF InReg(Stack, Fetched.a)
       THEN /\ lclos' = SetReg(AfterFetch, Cur, Fetched.a,
                               IF Fetched.b < Len(lclos[Cur].upvalues)
                               THEN lclos[Cur].upvalues[Fetched.b + 1]
                               ELSE Nil)
            /\ err' = err
       ELSE /\ lclos' = AfterFetch
            /\ err' = "IndexError"
    /\ UNCHANGED <<protos, pclos, tables, globals, call_info, activations,
                   halted, lastpy, lastset, nobj, typemt, pylua>>

\* a wrong SETUPVAL that stores nothing (what C15 must rule out)
SetUpvalNothing(c, b, v) == c

\* closure.upvalues[b] = value: the entry of this closure's own list
SetUpval(c, b, v) == [c EXCEPT !.upvalues[b + 1] = v]

\* SETUPVAL: upvalues[B] := R[A], nothing when there is no such upvalue
SETUPVAL ==
    /\ CanFetch /\ Fetched.op = "SETUPVAL"
    /\ inst' = Fetched
    /\ IF InReg(Stack, Fetched.a)
       THEN /\ lclos' = IF Fetched.b < Len(lclos[Cur].upvalues)
                        THEN [AfterFetch EXCEPT
                                 ![Cur] = SetUpval(@, Fetched.b,
                                                   Stack[Fetched.a + 1])]
                        ELSE AfterFetch
            /\ err' = err
       ELSE /\ lclos' = AfterFetch
            /\ err' = "IndexError"
    /\ UNCHANGED <<protos, pclos, tables, globals, call_info, activations,
                   halted, lastpy, lastset, nobj, typemt, pylua>>

JMP ==
    /\ CanFetch /\ Fetched.op = "JMP"
    /\ inst' = Fetched
    /\ lclos' = [AfterFetch EXCEPT ![Cur].pc = @ + Fetched.sbx]
    /\ UNCHANGED <<protos, pclos, tables, globals, call_info, activations,
                   err, halted, lastpy, lastset, nobj, typemt, pylua>>

\* EQ.  A metamethod __eq that is a function is called through _luacall;
\* that dispatch is not part of this model, and no table of these programs
\* has a metatable.
EQ ==
    /\ CanFetch /\ Fetched.op = "EQ"
    /\ inst' = Fetched
    /\ IF RKok(Fetched.b) /\ RKok(Fetched.c)
       THEN LET va == RK(Fetched.b)
                vb == RK(Fetched.c)
            IN IF va = None \/ vb = None
               THEN /\ lclos' = AfterFetch
                    /\ err' = "AttributeError"
               ELSE /\ CompareCheck(va, vb)
                         \/ ~is_function(SolveMetaFunc(va, vb, "__eq"))
                    /\ lclos' =
                         [AfterFetch EXCEPT ![Cur].pc =
                             IF CompareEQ(va, vb) # (Fetched.a # 0)
                             THEN @ + 1 ELSE @]
                    /\ err' = err
       ELSE /\ lclos' = AfterFetch
            /\ err' = "IndexError"
    /\ UNCHANGED <<protos, pclos, tables, globals, call_info, activations,
                   halted, lastpy, lastset, nobj, typemt, pylua>>

\* LT and LE, with the same proviso about metamethods (__lt, __le)
Compare(op, va, vb) ==
    IF va = None \/ vb = None
    THEN /\ lclos' = AfterFetch
         /\ err' = "AttributeError"
    ELSE /\ CompareCheck(va, vb)
              \/ ~is_function(SolveMetaFunc(va, vb, IF op = "LT" THEN "__lt"
                                                                ELSE "__le"))
         /\ lclos' = [AfterFetch EXCEPT ![Cur].pc =
                         IF CompareOrd(op, va, vb) # (Fetched.a # 0)
                         THEN @ + 1 ELSE @]
         /\ err' = err

LT ==
    /\ CanFetch /\ Fetched.op = "LT"
    /\ inst' = Fetched
    /\ IF RKok(Fetched.b) /\ RKok(Fetched.c)
       THEN Compare("LT", RK(Fetched.b), RK(Fetched.c))
       ELSE /\ lclos' = AfterFetch
            /\ err' = "IndexError"
    /\ UNCHANGED <<protos, pclos, tables, globals, call_info, activations,
                   halted, lastpy, lastset, nobj, typemt, pylua>>

LE ==
    /\ CanFetch /\ Fetched.op = "LE"
    /\ inst' = Fetched
    /\ IF RKok(Fetched.b) /\ RKok(Fetched.c)
       THEN Compare("LE", RK(Fetched.b), RK(Fetched.c))
       ELSE /\ lclos' = AfterFetch
            /\ err' = "IndexError"
    /\ UNCHANGED <<protos, pclos, tables, globals, call_info, activations,
                   halted, lastpy, lastset, nobj, typemt, pylua>>

(***************************************************************************)
(* Arithmetic: CheckNumber, ArithOperator.solve and arith.                 *)
(* CheckNumber.check converts a string operand to a number in place, in    *)
(* the Value object itself, so every place that holds the object sees the  *)
(* number afterwards.                                                      *)
(***************************************************************************)
\* float(s) for the string literals of the programs; for any other
\* literal here float raises ValueError
ParseNumber == ("1" :> 1) @@ ("2" :> 2)

\* the places that hold Value objects
Store(l, pc, pr, tb, gl) ==
    [lclos |-> l, pclos |-> pc, protos |-> pr, tables |-> tb, globals |-> gl]

Subst(v, o, nv) == IF o > 0 /\ v.o = o THEN nv ELSE v
SubstAll(f, o, nv) == [x \in DOMAIN f |-> Subst(f[x], o, nv)]
SubstTable(T, o, nv) ==
    [T EXCEPT !.list = SubstAll(@, o, nv), !.map = SubstAll(@, o, nv)]

\* the Value object o now holds nv: what every holder of it sees.  (The
\* keys of a dict are left as they were hashed.)
ConvObj(S, o, nv) ==
    [lclos |-> [c \in DOMAIN S.lclos |->
                   [S.lclos[c] EXCEPT !.stack = SubstAll(@, o, nv),
                                      !.upvalues = SubstAll(@, o, nv),
                                      !.varargs = SubstAll(@, o, nv)]],
     pclos |-> [c \in DOMAIN S.pclos |->
                   [S.pclos[c] EXCEPT !.stack = SubstAll(@, o, nv)]],
     protos |-> [p \in DOMAIN S.protos |->
                   [S.protos[p] EXCEPT !.consts = SubstAll(@, o, nv)]],
     tables |-> [t \in DOMAIN S.tables |-> SubstTable(S.tables[t], o, nv)],
     globals |-> SubstTable(S.globals, o, nv)]

\* Value.conv_str_to_number followed by is_number
CheckNumber(S, v) ==
    IF is_string(v)
    THEN IF v.s \in DOMAIN ParseNumber
         THEN LET nv == Obj(Num(ParseNumber[v.s]), v.o)
              IN [ok |-> TRUE, err |-> "", S |-> ConvObj(S, v.o, nv),
                  v |-> nv]
         ELSE [ok |-> FALSE, err |-> "ValueError", S |-> S, v |-> v]
    ELSE [ok |-> is_number(v), err |-> "", S |-> S, v |-> v]

ArithOps == {"ADD", "SUB", "MUL", "DIV", "MOD", "POW"}

ArithMeta(op) ==
    CASE op = "ADD" -> "__add" [] op = "SUB" -> "__sub"
      [] op = "MUL" -> "__mul" [] op = "DIV" -> "__div"
      [] op = "MOD" -> "__mod" [] op = "POW" -> "__pow"

RECURSIVE Power(_, _)
Power(x, y) == IF y = 0 THEN 1 ELSE x * Power(x, y - 1)

\* Python's // and % on ints (floor division, sign of the divisor)
FloorDiv(x, y) ==
    IF y > 0 THEN (x - (x % y)) \div y
    ELSE ((-x) - ((-x) % (-y))) \div (-y)
FloorMod(x, y) == x - y * FloorDiv(x, y)

\* the lambda of ARITH[op] on two ints whose result is an int after
\* conv_float_to_int
ArithDefined(op, x, y) ==
    CASE op \in {"ADD", "SUB", "MUL"} -> TRUE
      [] op = "DIV" -> y # 0 /\ FloorMod(x, y) = 0
      [] op = "MOD" -> y # 0
      [] op = "POW" -> y >= 0

\* a wrong operator table that adds whatever the opcode (what C12 must
\* rule out)
ArithApplyAllAdd(op, x, y) == x + y

ArithApply(op, x, y) ==
    CASE op = "ADD" -> x + y
      [] op = "SUB" -> x - y
      [] op = "MUL" -> x * y
      [] op = "DIV" -> FloorDiv(x, y)
      [] op = "MOD" -> FloorMod(x, y)
      [] op = "POW" -> Power(x, y)

\* ArithOperator.solve with two operands: the store after the checks, and
\* either the numbers to operate on (ok) or the metamethod looked up (None
\* when there is none).  check(va) and check(vb): vb is checked only when
\* va passed, and may be the object va was.
SolveResult(op, c1, c2, mt) ==
    [ok |-> c1.ok /\ c2.ok,
     err |-> c2.err,
     S |-> c2.S,
     x |-> c1.v.n,
     y |-> c2.v.n,
     meta |-> IF (c1.ok /\ c2.ok) \/ c2.err # "" \/ mt = 0 THEN None
              ELSE TableGet(tables[mt], Str(ArithMeta(op)))]

SolveChecked(op, va, vb0, c1, vb) ==
    SolveResult(op, c1,
                IF c1.ok THEN CheckNumber(c1.S, vb)
                ELSE [ok |-> FALSE, err |-> c1.err, S |-> c1.S, v |-> vb],
                IF GetMetatable(va) # 0 THEN GetMetatable(va)
                                        ELSE GetMetatable(vb0))

SolveOperands(op, va, vb0, c1) ==
    SolveChecked(op, va, vb0, c1, Subst(vb0, va.o, c1.v))

Solve(op, S0, b, c) == SolveOperands(op, RK(b), RK(c), CheckNumber(S0, RK(b)))

\* arith: the result, a new Value object, is stored in R[A]
ArithStore(op, r, done, res) ==
    /\ ~is_function(r.meta)
    /\ (r.ok /\ ~done) => r.y = 0
    /\ protos' = r.S.protos
    /\ pclos' = r.S.pclos
    /\ tables' = r.S.tables
    /\ globals' = r.S.globals
    /\ nobj' = IF done THEN nobj + 1 ELSE nobj
    /\ lclos' = IF done /\ InReg(Stack, Fetched.a)
                THEN SetReg(r.S.lclos, Cur, Fetched.a, res)
                ELSE r.S.lclos
    /\ err' = IF r.err # "" THEN r.err
              ELSE IF r.ok /\ ~done THEN "ZeroDivisionError"
              ELSE IF done /\ ~InReg(Stack, Fetched.a) THEN "IndexError"
              ELSE err

ArithSolved(op, r) ==
    ArithStore(op, r, r.ok /\ ArithDefined(op, r.x, r.y),
               Obj(Num(ArithApply(op, r.x, r.y)), nobj + 1))

\* the handlers ADD .. POW: ARITH[op].arith(state, a, b, c).  A metamethod
\* that is a function is called through _luacall; no operand of these
\* programs has one.  A quotient or power that is not an integer is not
\* drawn.
Arith(op) ==
    /\ inst' = Fetched
    /\ IF RKok(Fetched.b) /\ RKok(Fetched.c)
       THEN IF RK(Fetched.b) = None \/ RK(Fetched.c) = None
            THEN /\ err' = "AttributeError"
                 /\ lclos' = AfterFetch
                 /\ UNCHANGED <<protos, pclos, tables, globals, nobj>>
            ELSE ArithSolved(op, Solve(op, Store(AfterFetch, pclos, protos,
                                                 tables, globals),
                                       Fetched.b, Fetched.c))
       ELSE /\ err' = "IndexError"
            /\ lclos' = AfterFetch
            /\ UNCHANGED <<protos, pclos, tables, globals, nobj>>
    /\ UNCHANGED <<call_info, activations, halted, lastpy, lastset, typemt,
                   pylua>>

ADD ==
    /\ CanFetch /\ Fetched.op = "ADD"
    /\ Arith("ADD")

SUB ==
    /\ CanFetch /\ Fetched.op = "SUB"
    /\ Arith("SUB")

MUL ==
    /\ CanFetch /\ Fetched.op = "MUL"
    /\ Arith("MUL")

DIV ==
    /\ CanFetch /\ Fetched.op = "DIV"
    /\ Arith("DIV")

MOD ==
    /\ CanFetch /\ Fetched.op = "MOD"
    /\ Arith("MOD")

POW ==
    /\ CanFetch /\ Fetched.op = "POW"
    /\ Arith("POW")

\* ArithOperator.solve with one operand: check(va) is a bool, never None,
\* so the lambda -a is applied to whatever va holds once a string was
\* converted: a number or a bool (an int of the host) is negated, anything
\* else makes the host raise TypeError.  The metamethod branch is not
\* reached.
UnmSolved(c, a) ==
    /\ protos' = c.S.protos
    /\ pclos' = c.S.pclos
    /\ tables' = c.S.tables
    /\ globals' = c.S.globals
    /\ IF c.err # "" \/ ~(is_number(c.v) \/ is_boolean(c.v))
            \/ ~InReg(Stack, a)
       THEN /\ lclos' = c.S.lclos
            /\ nobj' = nobj
            /\ err' = IF c.err # "" THEN c.err
                      ELSE IF is_number(c.v) \/ is_boolean(c.v)
                      THEN "IndexError" ELSE "TypeError"
       ELSE /\ lclos' = SetReg(c.S.lclos, Cur, a, Obj(Num(-c.v.n), nobj + 1))
            /\ nobj' = nobj + 1
            /\ err' = err

\* UNM: ARITH["UNM"].arith(state, a, b)
UNM ==
    /\ CanFetch /\ Fetched.op = "UNM"
    /\ inst' = Fetched
    /\ IF ~RKok(Fetched.b)
       THEN /\ err' = "IndexError" /\ lclos' = AfterFetch
            /\ UNCHANGED <<protos, pclos, tables, globals, nobj>>
       ELSE IF RK(Fetched.b) = None
       THEN /\ err' = "AttributeError" /\ lclos' = AfterFetch
            /\ UNCHANGED <<protos, pclos, tables, globals, nobj>>
       ELSE UnmSolved(CheckNumber(Store(AfterFetch, pclos, protos, tables,
                                        globals), RK(Fetched.b)),
                      Fetched.a)
    /\ UNCHANGED <<call_info, activations, halted, lastpy, lastset, typemt,
                   pylua>>


(***************************************************************************)
(* FORPREP and FORLOOP.  The operands are converted in place             *)
(* (conv_str_to_number) in the order of the code, then tested.  FORLOOP    *)
(* adds the step to the index object in place, so that every holder of     *)
(* that object sees the sum, and stores the same object in R[A+3].         *)
(***************************************************************************)
\* conv_str_to_number on the object in register i of the running frame
ForConv(c, i) ==
    IF c.err # "" THEN c
    ELSE IF c.S.lclos[Cur].stack[i + 1] = None
    THEN [c EXCEPT !.err = "AttributeError"]
    ELSE [ok |-> c.ok /\ CheckNumber(c.S, c.S.lclos[Cur].stack[i + 1]).ok,
          err |-> CheckNumber(c.S, c.S.lclos[Cur].stack[i + 1]).err,
          S |-> CheckNumber(c.S, c.S.lclos[Cur].stack[i + 1]).S]

\* the handler is over with the Value objects as in S
ForEnd(S, e, n) ==
    /\ lclos' = S.lclos
    /\ pclos' = S.pclos
    /\ protos' = S.protos
    /\ tables' = S.tables
    /\ globals' = S.globals
    /\ nobj' = n
    /\ err' = IF e = "" THEN err ELSE e

\* a wrong test that leaves the loop one iteration early (what C21 must
\* rule out)
ForLoopTestStrict(S, st, a, sbx) ==
    IF \/ st[a + 3].n > 0 /\ st[a + 1].n < st[a + 2].n
       \/ st[a + 3].n <= 0 /\ st[a + 1].n > st[a + 2].n
    THEN ForEnd([S EXCEPT !.lclos[Cur].pc = @ + sbx,
                          !.lclos[Cur].stack[a + 4] = st[a + 1]],
                "", nobj)
    ELSE ForEnd(S, "", nobj)

\* the test of FORLOOP after idx.value += step.value, with st the window
ForLoopTest(S, st, a, sbx) ==
    IF \/ st[a + 3].n > 0 /\ st[a + 1].n <= st[a + 2].n
       \/ st[a + 3].n <= 0 /\ st[a + 1].n >= st[a + 2].n
    THEN IF InReg(st, a + 3)
         THEN ForEnd([S EXCEPT !.lclos[Cur].pc = @ + sbx,
                               !.lclos[Cur].stack[a + 4] = st[a + 1]],
                     "", nobj)
         ELSE ForEnd([S EXCEPT !.lclos[Cur].pc = @ + sbx], "IndexError", nobj)
    ELSE ForEnd(S, "", nobj)

ForLoopChecked(c, st, a, sbx) ==
    IF c.err # "" THEN ForEnd(c.S, c.err, nobj)
    ELSE IF ~c.ok THEN ForEnd(c.S, "TypeError", nobj)
    ELSE ForLoopTest(
             ConvObj(c.S, st[a + 1].o,
                     Obj(Num(st[a + 1].n + st[a + 3].n), st[a + 1].o)),
             ConvObj(c.S, st[a + 1].o,
                     Obj(Num(st[a + 1].n + st[a + 3].n), st[a + 1].o)
                    ).lclos[Cur].stack,
             a, sbx)

FORLOOP ==
    /\ CanFetch /\ Fetched.op = "FORLOOP"
    /\ inst' = Fetched
    /\ IF InReg(Stack, Fetched.a + 2)
       THEN ForLoopChecked(
                ForConv(ForConv(ForConv([ok |-> TRUE, err |-> "",
                                         S |-> Store(AfterFetch, pclos, protos,
                                                     tables, globals)],
                                        Fetched.a + 2),
                                Fetched.a),
                        Fetched.a + 1),
                ForConv(ForConv(ForConv([ok |-> TRUE, err |-> "",
                                         S |-> Store(AfterFetch, pclos, protos,
                                                     tables, globals)],
                                        Fetched.a + 2),
                                Fetched.a),
                        Fetched.a + 1).S.lclos[Cur].stack,
                Fetched.a, Fetched.sbx)
       ELSE /\ err' = "IndexError"
            /\ lclos' = AfterFetch
            /\ UNCHANGED <<protos, pclos, tables, globals, nobj>>
    /\ UNCHANGED <<call_info, activations, halted, lastpy, lastset, typemt,
                   pylua>>

ForPrepChecked(c, st, a, sbx) ==
    IF c.err # "" THEN ForEnd(c.S, c.err, nobj)
    ELSE IF ~c.ok THEN ForEnd(c.S, "TypeError", nobj)
    ELSE ForEnd([c.S EXCEPT
                   !.lclos[Cur].pc = @ + sbx,
                   !.lclos[Cur].stack[a + 1] =
                       Obj(Num(st[a + 1].n - st[a + 3].n), nobj + 1)],
                "", nobj + 1)

FORPREP ==
    /\ CanFetch /\ Fetched.op = "FORPREP"
    /\ inst' = Fetched
    /\ IF InReg(Stack, Fetched.a + 2)
       THEN ForPrepChecked(
                ForConv(ForConv([ok |-> TRUE, err |-> "",
                                 S |-> Store(AfterFetch, pclos, protos,
                                             tables, globals)],
                                Fetched.a),
                        Fetched.a + 2),
                ForConv(ForConv([ok |-> TRUE, err |-> "",
                                 S |-> Store(AfterFetch, pclos, protos,
                                             tables, globals)],
                                Fetched.a),
                        Fetched.a + 2).S.lclos[Cur].stack,
                Fetched.a, Fetched.sbx)
       ELSE /\ err' = "IndexError"
            /\ lclos' = AfterFetch
            /\ UNCHANGED <<protos, pclos, tables, globals, nobj>>
    /\ UNCHANGED <<call_info, activations, halted, lastpy, lastset, typemt,
                   pylua>>

(***************************************************************************)
(* LuaState.call and pycall.  A call of a Lua closure starts a nested      *)
(* dispatch loop in the host; its activation is recorded with what the     *)
(* caller's frame held when the call was made.  A call of a native pushes  *)
(* the native's frame; NativeReturn is the rest of pycall.                 *)
(***************************************************************************)
\* L is the closure heap when the call is made and tf says that TFORLOOP
\* makes it
CallLuaIn(L, cid, idx, nargs, nrets, tf) ==
    LET p == protos[lclos[cid].func]
    IN IF PrecallOk(L[Cur].stack, p, idx, nargs)
       THEN /\ lclos' = [L EXCEPT
                            ![cid] = Precall(@, p,
                                             CallArgs(L[Cur].stack, idx, nargs),
                                             idx, nrets)]
            /\ call_info' = Append(call_info, LRef(cid))
            /\ activations' =
                 Append(activations,
                        [kind |-> "call", caller |-> Cur,
                         depth |-> Len(call_info),
                         pc |-> L[Cur].pc, stack |-> L[Cur].stack,
                         nrets |-> lclos[Cur].nrets,
                         ret_idx |-> lclos[Cur].ret_idx,
                         func_idx |-> idx, want |-> nrets,
                         tfor |-> tf])
            /\ UNCHANGED <<pclos, err>>
       ELSE Fail("IndexError")

CallLua(cid, idx, nargs, nrets) ==
    CallLuaIn(AfterFetch, cid, idx, nargs, nrets, FALSE)

CallNativeIn(L, pid, idx, nargs, nrets, tf) ==
    IF nargs >= 0 /\ idx + nargs < Len(L[Cur].stack)
    THEN /\ pclos' = [pclos EXCEPT
                         ![pid].stack = CallArgs(L[Cur].stack, idx, nargs)]
         /\ call_info' = Append(call_info, PRef(pid))
         /\ activations' =
              Append(activations,
                     [kind |-> "pycall", depth |-> Len(call_info),
                      func_idx |-> idx, nrets |-> nrets, tfor |-> tf])
         /\ lclos' = L
         /\ err' = err
    ELSE Fail("IndexError")

CallNative(pid, idx, nargs, nrets) ==
    CallNativeIn(AfterFetch, pid, idx, nargs, nrets, FALSE)

(***************************************************************************)
(* _luacall.  The function and its arguments are appended to the list of   *)
(* the running frame, LuaState.call is made on them for one result, and    *)
(* when that call is over the result is read where the function was, the   *)
(* list is cut back and the handler that asked for the call goes on (its   *)
(* remaining statements are the continuation cont).  L is the closure      *)
(* heap with the list already extended.                                    *)
(***************************************************************************)
LuaCallLua(L, cid, func_idx, nargs, cont) ==
    IF PrecallOk(L[Cur].stack, protos[L[cid].func], func_idx, nargs)
    THEN /\ lclos' = [L EXCEPT
                        ![cid] = Precall(@, protos[L[cid].func],
                                         CallArgs(L[Cur].stack, func_idx, nargs),
                                         func_idx, 1)]
         /\ call_info' = Append(call_info, LRef(cid))
         /\ activations' = Append(activations,
                                  [kind |-> "luacall", depth |-> Len(call_info),
                                   func_idx |-> func_idx,
                                   cont |-> cont])
         /\ UNCHANGED <<pclos, err>>
    ELSE /\ lclos' = L
         /\ err' = "IndexError"
         /\ UNCHANGED <<pclos, call_info, activations>>

LuaCallNative(L, pid, func_idx, nargs, cont) ==
    /\ pclos' = [pclos EXCEPT
                    ![pid].stack = CallArgs(L[Cur].stack, func_idx, nargs)]
    /\ call_info' = Append(call_info, PRef(pid))
    /\ activations' = Append(activations,
                             [kind |-> "pyluacall", depth |-> Len(call_info),
                              func_idx |-> func_idx,
                              nrets |-> 1, cont |-> cont])
    /\ lclos' = L
    /\ err' = err

LuaCall(func, args, cont) ==
    IF is_lclosure(func)
    THEN LuaCallLua([AfterFetch EXCEPT ![Cur].stack = @ \o <<func>> \o args],
                    func.n, Len(Stack), Len(args), cont)
    ELSE LuaCallNative([AfterFetch EXCEPT ![Cur].stack = @ \o <<func>> \o args],
                       func.n, Len(Stack), Len(args), cont)

\* the list of a frame and the exception raised ("" for none) when a
\* piece of handler code is over; next says what TFORLOOP does after its
\* call: 0 nothing (another handler), 1 fetch the next instruction, 2 fetch
\* it, copy the first result at idx to the control register below it, jump
Outcome(st, e) == [stack |-> st, err |-> e, next |-> 0, idx |-> 0]

\* the frame c of the handler when the handler is over
Resume(c, out) ==
    IF out.next = 0 \/ out.err # "" \/ c.pc >= Len(protos[c.func].codes)
    THEN [c EXCEPT !.stack = out.stack]
    ELSE IF out.next = 1
    THEN [c EXCEPT !.stack = out.stack, !.pc = @ + 1]
    ELSE [c EXCEPT !.stack = [out.stack EXCEPT
                                 ![out.idx] = out.stack[out.idx + 1]],
                   !.pc = @ + 1 + protos[c.func].codes[c.pc + 1].sbx]

\* fetch returned None to TFORLOOP: next_inst.asbx() raises
ResumeErr(c, out) ==
    IF out.err = "" /\ out.next # 0 /\ c.pc >= Len(protos[c.func].codes)
    THEN "AttributeError" ELSE out.err

\* a wrong rest of TFORLOOP, which goes back to the body whatever the
\* iterator returned (what C34 must rule out)
TForEndJump(st, idx) ==
    IF ~InReg(st, idx) THEN Outcome(st, "IndexError")
    ELSE [stack |-> st, err |-> "", next |-> 2, idx |-> idx]

\* the rest of TFORLOOP after state.call, on the list st of its frame
TForEnd(st, idx) ==
    IF ~InReg(st, idx) THEN Outcome(st, "IndexError")
    ELSE [stack |-> st, err |-> "",
          next |-> IF is_nil(st[idx + 1]) THEN 1 ELSE 2, idx |-> idx]

\* the statements of the handler after _luacall returned res: CALL stores
\* it in the function slot, SELF stores R[B] and it
Continue(st, res, cont) ==
    CASE cont.k = "CALL" ->
           IF cont.idx < Len(st)
           THEN Outcome([st EXCEPT ![cont.idx + 1] = res], "")
           ELSE Outcome(st, "IndexError")
      [] cont.k = "SELF" ->
           IF cont.a + 1 < Len(st)
           THEN Outcome([st EXCEPT ![cont.a + 2] = cont.vb,
                                   ![cont.a + 1] = IF res = None THEN Nil
                                                                 ELSE res],
                        "")
           ELSE Outcome(st, "IndexError")

\* a wrong end of _luacall that cuts the list back and loses the result
\* (what C19 must rule out)
LuaCallEndDrop(st, act) == Outcome(SubSeq(st, 1, act.func_idx), "")

\* the rest of _luacall, on the list st of the frame that is running then
LuaCallEnd(st, act) ==
    IF act.func_idx < Len(st)
    THEN Continue(SubSeq(st, 1, act.func_idx), st[act.func_idx + 1], act.cont)
    ELSE Outcome(st, "IndexError")

\* the innermost host activation (if any) is over: its frame list is as
\* out says, in the closure heap L
\* a wrong end, whose dispatch loop goes on after the frame has returned
\* (what C24 must rule out)
LoopEndStay(L, fid, out) ==
    /\ lclos' = [L EXCEPT ![fid] = Resume(@, out)]
    /\ activations' = activations
    /\ err' = ResumeErr(L[fid], out)

LoopEnd(L, fid, out) ==
    /\ lclos' = [L EXCEPT ![fid] = Resume(@, out)]
    /\ activations' = IF activations # <<>>
                      THEN Front(activations) ELSE activations
    /\ err' = ResumeErr(L[fid], out)

\* what follows the end of the innermost host activation
AfterCall(st) ==
    IF activations # <<>>
    THEN IF activations[Len(activations)].kind \in {"luacall", "pyluacall"}
         THEN LuaCallEnd(st, activations[Len(activations)])
         ELSE IF activations[Len(activations)].tfor
         THEN TForEnd(st, activations[Len(activations)].func_idx)
         ELSE Outcome(st, "")
    ELSE Outcome(st, "")

\* SELF: R[A+1] := R[B]; R[A] := R[B][RK(C)] by LuaState.gettable, which
\* is Value.gettable with _luacall for an __index function
SelfResult(key, r, cont) ==
    CASE r.kind = "value" ->
           /\ lclos' = [AfterFetch EXCEPT
                           ![Cur].stack = Continue(Stack, r.v, cont).stack]
           /\ err' = Continue(Stack, r.v, cont).err
           /\ UNCHANGED <<pclos, call_info, activations>>
      [] r.kind = "call" -> LuaCall(r.f, <<r.self, key>>, cont)
      [] r.kind = "RecursionError" -> Fail("RecursionError")

SELF ==
    /\ CanFetch /\ Fetched.op = "SELF"
    /\ inst' = Fetched
    /\ IF InReg(Stack, Fetched.b) /\ RKok(Fetched.c)
       THEN IF Stack[Fetched.b + 1] = None THEN Fail("AttributeError")
            ELSE SelfResult(RK(Fetched.c),
                            ValueGettable(Stack[Fetched.b + 1],
                                          RK(Fetched.c), 1),
                            [k |-> "SELF", a |-> Fetched.a,
                             vb |-> Stack[Fetched.b + 1]])
       ELSE Fail("IndexError")
    /\ UNCHANGED <<protos, tables, globals, halted, lastpy, lastset, nobj,
                   typemt, pylua>>

\* the target is a table whose metatable has a function __call
HasCallMeta(fv) ==
    /\ is_table(fv)
    /\ GetMetatable(fv) # 0
    /\ is_function(TableGet(tables[GetMetatable(fv)], Str("__call")))

DoCall(idx, nargs, nrets) ==
    IF ~InReg(Stack, idx) THEN Fail("IndexError")
    ELSE LET fv == Stack[idx + 1]
         IN IF fv = None THEN Fail("AttributeError")
            ELSE IF is_function(fv)
            THEN IF is_lclosure(fv)
                 THEN CallLua(fv.n, idx, nargs, nrets)
                 ELSE CallNative(fv.n, idx, nargs, nrets)
            ELSE IF is_table(fv)
            THEN IF HasCallMeta(fv)
                 THEN LuaCall(TableGet(tables[GetMetatable(fv)], Str("__call")),
                              SubSeq(Stack, idx + 1,
                                     IF idx + nargs + 1 < Len(Stack)
                                     THEN idx + nargs + 1 ELSE Len(Stack)),
                              [k |-> "CALL", idx |-> idx])
                 ELSE /\ lclos' = AfterFetch
                      /\ UNCHANGED <<pclos, call_info, activations, err>>
            ELSE Fail("TypeError")

CALL ==
    /\ CanFetch /\ Fetched.op = "CALL"
    /\ inst' = Fetched
    /\ DoCall(Fetched.a,
              IF Fetched.b > 0 THEN Fetched.b - 1
                               ELSE Len(Stack) - Fetched.a - 1,
              Fetched.c - 1)
    /\ UNCHANGED <<protos, tables, globals, halted, lastpy, lastset, nobj, typemt, pylua>>

\* TFORLOOP A C: R[A+3], R[A+4], R[A+5] := R[A], R[A+1], R[A+2];
\* state.call(A+3, 2, C); then the next instruction is fetched and, when
\* R[A+3] is not Nil, R[A+2] := R[A+3] and the pc moves by its sBx
TForCopy(st, a) ==
    [i \in 1..Len(st) |->
        IF i \in (a + 4)..(a + 6) THEN st[i - 3] ELSE st[i]]

\* the call was made on nothing (a table that cannot be called): the rest
\* of the handler runs at once
TForNoCall(L, idx) ==
    /\ lclos' = [L EXCEPT ![Cur] = Resume(@, TForEnd(L[Cur].stack, idx))]
    /\ err' = ResumeErr(L[Cur], TForEnd(L[Cur].stack, idx))
    /\ UNCHANGED <<pclos, call_info, activations>>

TForCall(L, fv, idx, nrets) ==
    IF fv = None THEN Fail("AttributeError")
    ELSE IF is_function(fv)
    THEN IF is_lclosure(fv)
         THEN CallLuaIn(L, fv.n, idx, 2, nrets, TRUE)
         ELSE CallNativeIn(L, fv.n, idx, 2, nrets, TRUE)
    ELSE IF is_table(fv) THEN TForNoCall(L, idx)
    ELSE Fail("TypeError")

TFORLOOP ==
    /\ CanFetch /\ Fetched.op = "TFORLOOP"
    /\ ~(InReg(Stack, Fetched.a) /\ HasCallMeta(Stack[Fetched.a + 1]))
    /\ inst' = Fetched
    /\ IF Fetched.a + 5 < Len(Stack)
       THEN TForCall([AfterFetch EXCEPT
                         ![Cur].stack = TForCopy(Stack, Fetched.a)],
                     Stack[Fetched.a + 1], Fetched.a + 3, Fetched.c)
       ELSE Fail("IndexError")
    /\ UNCHANGED <<protos, tables, globals, halted, lastpy, lastset, nobj, typemt, pylua>>

TailLua(tid, a, nargs) ==
    LET p == protos[lclos[tid].func]
    IN IF PrecallOk(Stack, p, a, nargs)
       THEN /\ lclos' = [AfterFetch EXCEPT
                            ![tid] = Precall(@, p, CallArgs(Stack, a, nargs),
                                             lclos[Cur].ret_idx,
                                             lclos[Cur].nrets)]
            /\ call_info' = TailcallFrames(call_info, tid)
            /\ UNCHANGED <<pclos, activations, err>>
       ELSE Fail("IndexError")

TAILCALL ==
    /\ CanFetch /\ Fetched.op = "TAILCALL"
    /\ inst' = Fetched
    /\ LET a == Fetched.a
           nargs == IF Fetched.b > 0 THEN Fetched.b - 1
                                     ELSE Len(Stack) - a - 1
       IN IF ~InReg(Stack, a) THEN Fail("IndexError")
          ELSE IF Stack[a + 1] = None THEN Fail("AttributeError")
          ELSE IF ~is_function(Stack[a + 1]) THEN Fail("TypeError")
          ELSE IF is_lclosure(Stack[a + 1])
               THEN TailLua(Stack[a + 1].n, a, nargs)
               ELSE CallNative(Stack[a + 1].n, a, nargs, -1)
    /\ UNCHANGED <<protos, tables, globals, halted, lastpy, lastset, nobj, typemt, pylua>>

\* pycall from closure.func(self) on: the native runs, its frame is
\* popped, its results are transferred
NativeReturn ==
    /\ Running /\ call_info # <<>> /\ Top.k = "P"
    /\ pclos[Top.id].func \in NativeModelled
    /\ LET pid == Top.id
           act == activations[Len(activations)]
           out == NativeRun(pclos[pid].func, pclos[pid].stack)
           caller == call_info[Len(call_info) - 1].id
           st == lclos[caller].stack
           ran == [pclos EXCEPT ![pid].stack = out.stack]
       IN /\ tables' = out.tables
          /\ typemt' = out.typemt
          /\ IF out.err # ""
             THEN /\ err' = out.err
                  /\ UNCHANGED <<lclos, pclos, call_info, activations, lastpy>>
             ELSE /\ pclos' = IF out.newp
                              THEN Append(ran, NewPClosure("next"))
                              ELSE ran
                  /\ call_info' = Front(call_info)
                  /\ lastpy' = [id |-> pid, ret_count |-> out.ret]
                  /\ IF PycallTransferOk(st, act.func_idx, act.nrets)
                     THEN LoopEnd(lclos, caller,
                                  AfterCall(PycallTransfer(st, out.stack,
                                                               act.func_idx,
                                                               act.nrets,
                                                               out.ret)))
                     ELSE /\ err' = "IndexError"
                          /\ UNCHANGED <<lclos, activations>>
    /\ UNCHANGED <<protos, globals, inst, halted, lastset, nobj, pylua>>

\* RETURN: poscall, after which the nested dispatch loop of the innermost
\* LuaState.call (if any) ends
RETURN ==
    /\ CanFetch /\ Fetched.op = "RETURN"
    /\ inst' = Fetched
    /\ LET a == Fetched.a
           c == lclos[Cur]
           ret_count == IF Fetched.b - 1 = -1 THEN Len(c.stack) - a
                                              ELSE Fetched.b - 1
           n == IF c.nrets = -1 THEN ret_count ELSE c.nrets
           rest == Front(call_info)
           dstid == IF rest = <<>> THEN Cur ELSE rest[Len(rest)].id
           dst == lclos[dstid].stack
       IN /\ call_info' = rest
          /\ IF PoscallOk(Len(dst), Len(c.stack), a, ret_count, c.ret_idx, n)
             THEN LoopEnd([AfterFetch EXCEPT ![Cur].nrets = n], dstid,
                          AfterCall(PoscallCopy(dst, c.stack, dstid = Cur,
                                                    a, ret_count, c.ret_idx,
                                                    n, 0)))
             ELSE /\ lclos' = [AfterFetch EXCEPT ![Cur].nrets = n]
                  /\ activations' = activations
                  /\ err' = "IndexError"
    /\ UNCHANGED <<protos, pclos, tables, globals, halted, lastpy, lastset, nobj, typemt, pylua>>

\* fetch returned None: excute returns False, which ends the innermost
\* dispatch loop, the top-level one when no call is active
FetchNone ==
    /\ Running
    /\ IF call_info = <<>> THEN TRUE
       ELSE Top.k = "L" /\ lclos[Cur].pc >= Len(Code)
    /\ inst' = NoInst
    /\ IF activations # <<>>
       THEN /\ halted' = halted
            /\ LoopEnd(lclos, Cur, AfterCall(lclos[Cur].stack))
       ELSE /\ activations' = activations
            /\ halted' = TRUE
            /\ UNCHANGED <<lclos, err>>
    /\ UNCHANGED <<protos, pclos, tables, globals, call_info,
                   lastpy, lastset, nobj, typemt, pylua>>

\* an exception raised inside a call leaves the innermost activation of
\* LuaState.call, pycall or _luacall: none of them has a try, except or
\* finally, so the activation ends and nothing else of the state changes
Unwind ==
    /\ err # ""
    /\ activations # <<>>
    /\ activations' = Front(activations)
    /\ UNCHANGED <<protos, lclos, pclos, tables, globals, call_info, inst, err,
                   halted, lastpy, lastset, nobj, typemt, pylua>>

Next ==
    \/ MOVE
    \/ LOADK
    \/ GETGLOBAL
    \/ NEWTABLE
    \/ GETTABLE
    \/ SETTABLE
    \/ SELF
    \/ CLOSURE
    \/ CLOSE
    \/ GETUPVAL
    \/ SETUPVAL
    \/ JMP
    \/ EQ
    \/ LT
    \/ LE
    \/ ADD
    \/ SUB
    \/ MUL
    \/ DIV
    \/ MOD
    \/ POW
    \/ FORPREP
    \/ FORLOOP
    \/ CALL
    \/ TAILCALL
    \/ NativeReturn
    \/ RETURN
    \/ FetchNone
    \/ VARARG
    \/ SETLIST
    \/ TEST
    \/ TESTSET
    \/ TFORLOOP
    \/ CONCAT
    \/ UNM
    \/ Unwind

Spec == Init /\ [][Next]_vars

(***************************************************************************)
(* Properties of calls and returns.                                        *)
(***************************************************************************)

\* C1: when the callee of a CALL to a Lua closure returns (the closure
\* currently executing included), the caller is the top frame again, its pc
\* is that of the instruction after the CALL, every register outside the
\* return slots holds what it held when the call was made, and the
\* caller's own expected_returns (nrets) and return_base (ret_idx) are
\* what they were.
C1_CallerPreserved ==
    [][(/\ CanFetch /\ Fetched.op = "RETURN"
        /\ activations # <<>>
        /\ activations[Len(activations)].kind = "call"
        /\ err' = "")
       => LET act == activations[Len(activations)]
              actual == IF Fetched.b = 0 THEN Len(Stack) - Fetched.a
                                         ELSE Fetched.b - 1
              n == IF act.want = -1 THEN actual ELSE act.want
              after == lclos'[act.caller]
          IN /\ Len(call_info') = act.depth
             /\ call_info'[act.depth] = LRef(act.caller)
             /\ after.pc = act.pc
             /\ after.nrets = act.nrets
             /\ after.ret_idx = act.ret_idx
             /\ Len(after.stack) = Len(act.stack)
             /\ \A i \in 1..Len(act.stack) :
                   (i - 1 < act.func_idx \/ i - 1 >= act.func_idx + n)
                      => after.stack[i] = act.stack[i]]_vars

\* C2: RETURN A B in a called Lua frame with a definite nrets = n >= 0
\* pops the frame and changes the caller's window in the slots
\* ret_idx .. ret_idx+n-1 only: the first min(n, actual) of them receive
\* R[A], R[A+1], ... of the returning frame, the others Nil.
C2_ReturnWritesSlots ==
    [][(/\ CanFetch /\ Fetched.op = "RETURN"
        /\ Len(call_info) >= 2
        /\ lclos[Cur].nrets >= 0
        /\ err' = "")
       => LET c == lclos[Cur]
              callerid == call_info[Len(call_info) - 1].id
              before == lclos[callerid].stack
              actual == IF Fetched.b = 0 THEN Len(c.stack) - Fetched.a
                                         ELSE Fetched.b - 1
          IN /\ call_info' = Front(call_info)
             /\ lclos'[callerid].stack =
                  [i \in 1..Len(before) |->
                      LET k == i - 1 - c.ret_idx
                      IN IF 0 <= k /\ k < c.nrets
                         THEN IF k < actual THEN c.stack[Fetched.a + k + 1]
                                            ELSE Nil
                         ELSE before[i]]]_vars

\* C3: a CALL of a Lua closure with nargs arguments leaves the callee with
\* a window of maxstacksize slots, the first numparams arguments in
\* registers 0..numparams-1 and Nil elsewhere, pc = 0, and a vararg buffer
\* that holds the surplus arguments in order when the prototype is_vararg
\* and is empty when it is not.
C3_PrecallWindow ==
    [][(/\ CanFetch /\ Fetched.op = "CALL"
        /\ InReg(Stack, Fetched.a)
        /\ is_lclosure(Stack[Fetched.a + 1])
        /\ err' = "")
       => LET a == Fetched.a
              nargs == IF Fetched.b > 0 THEN Fetched.b - 1
                                        ELSE Len(Stack) - a - 1
              id == Stack[a + 1].n
              p == protos[lclos[id].func]
              surplus == IF nargs > p.numparams THEN nargs - p.numparams
                                                ELSE 0
              w == lclos'[id]
          IN /\ call_info' = Append(call_info, LRef(id))
             /\ w.pc = 0
             /\ w.stack = [i \in 1..p.maxstacksize |->
                             IF i <= p.numparams /\ i <= nargs
                             THEN Stack[a + 1 + i] ELSE Nil]
             /\ w.varargs =
                  IF p.is_vararg
                  THEN [k \in 1..surplus |-> Stack[a + 1 + p.numparams + k]]
                  ELSE <<>>]_vars

\* C4: a CALL of a native with a definite expected count n = C-1 hands the
\* native exactly the arguments R[A+1..A+nargs] in order, and when the
\* native has returned the count r the caller's slots A .. A+n-1 hold the
\* last r values of the native's stack in order, cut to n, with Nil in the
\* slots from A+r on; no other slot of the caller changes.
C4_NativeCallDefinite ==
    [][/\ (/\ CanFetch /\ Fetched.op = "CALL" /\ Fetched.c > 0
           /\ InReg(Stack, Fetched.a)
           /\ is_function(Stack[Fetched.a + 1])
           /\ ~is_lclosure(Stack[Fetched.a + 1])
           /\ err' = "")
          => LET a == Fetched.a
                 nargs == IF Fetched.b > 0 THEN Fetched.b - 1
                                           ELSE Len(Stack) - a - 1
                 id == Stack[a + 1].n
             IN /\ call_info' = Append(call_info, PRef(id))
                /\ pclos'[id].stack = [k \in 1..nargs |-> Stack[a + 1 + k]]
       /\ (/\ Running /\ call_info # <<>> /\ Top.k = "P"
           /\ activations[Len(activations)].kind = "pycall"
           /\ inst.op = "CALL" /\ inst.c > 0
           /\ err' = "")
          => LET a == inst.a
                 n == inst.c - 1
                 r == lastpy'.ret_count
                 out == pclos'[Top.id].stack
                 callerid == call_info[Len(call_info) - 1].id
                 before == lclos[callerid].stack
             IN /\ call_info' = Front(call_info)
                /\ lastpy'.id = Top.id
                /\ lclos'[callerid].stack =
                     [i \in 1..Len(before) |->
                         LET k == i - 1 - a
                         IN IF 0 <= k /\ k < n
                            THEN IF k < r THEN out[Len(out) - r + k + 1]
                                          ELSE Nil
                            ELSE before[i]]]_vars

\* a call of pairs with C = 3 has returned: of the three values pairs
\* returned the caller holds the first two, the iterator and the table
C4_Witness ==
    /\ err = "" /\ inst.op = "CALL" /\ inst.c = 3
    /\ call_info = <<LRef(1)>>
    /\ lastpy.id = 5 /\ lastpy.ret_count = 3
    /\ lclos[1].stack[1] = PClosureV(6)
    /\ is_table(lclos[1].stack[2])
    /\ Raw(lclos[1].stack[3]) = Num(12)

\* C5: when a native called by CALL with C = 0 (expected count -1) has
\* returned the count r, the caller's slots A .. A+r-1 hold the r values
\* it returned, in order.
C5_NativeCallAll ==
    [][(/\ Running /\ call_info # <<>> /\ Top.k = "P"
        /\ inst.op = "CALL" /\ inst.c = 0
        /\ err' = "")
       => LET a == inst.a
              r == lastpy'.ret_count
              out == pclos'[Top.id].stack
              callerid == call_info[Len(call_info) - 1].id
          IN /\ call_info' = Front(call_info)
             /\ a + r <= Len(lclos'[callerid].stack)
             /\ \A k \in 0..(r - 1) :
                   lclos'[callerid].stack[a + k + 1] =
                       out[Len(out) - r + k + 1]]_vars

\* C6: a TAILCALL whose target is a Lua closure leaves the frame stack as
\* deep as it was, with the frames below the top untouched and the target
\* on top, and the target's ret_idx and nrets are those of the frame it
\* replaced.
C6_TailcallReplacesTop ==
    [][(/\ CanFetch /\ Fetched.op = "TAILCALL"
        /\ InReg(Stack, Fetched.a)
        /\ is_lclosure(Stack[Fetched.a + 1])
        /\ err' = "")
       => LET id == Stack[Fetched.a + 1].n
          IN /\ Len(call_info') = Len(call_info)
             /\ Front(call_info') = Front(call_info)
             /\ call_info'[Len(call_info')] = LRef(id)
             /\ lclos'[id].pc = 0
             /\ lclos'[id].ret_idx = lclos[Cur].ret_idx
             /\ lclos'[id].nrets = lclos[Cur].nrets]_vars

\* the closure g has just replaced the frame of f, which main called, and
\* inherited the slot and count of that call
C6_Witness ==
    /\ err = "" /\ inst.op = "TAILCALL"
    /\ Len(call_info) = 2 /\ Top.k = "L"
    /\ lclos[Cur].pc = 0
    /\ lclos[Cur].func = 3
    /\ lclos[Cur].nrets = MaxRets
    /\ lclos[Cur].ret_idx = 0
    /\ is_table(lclos[Cur].stack[1])

\* C7: when a TAILCALL whose target was a native is followed by the
\* frame's RETURN, that RETURN delivers to the frame's caller the values
\* the native returned: with r the native's count, the caller's slots
\* ret_idx .. hold those r values in order, cut or padded with Nil to the
\* frame's nrets when that is definite, and all r of them when it is -1.
C7_TailcallNative ==
    [][(/\ CanFetch /\ Fetched.op = "RETURN"
        /\ inst.op = "TAILCALL"
        /\ lclos[Cur].pc > 0
        /\ Code[lclos[Cur].pc] = inst
        /\ Len(call_info) >= 2
        /\ lastpy.id # 0
        /\ err' = "")
       => LET c == lclos[Cur]
              r == lastpy.ret_count
              out == pclos[lastpy.id].stack
              n == IF c.nrets = -1 THEN r ELSE c.nrets
              callerid == call_info[Len(call_info) - 1].id
          IN /\ call_info' = Front(call_info)
             /\ lclos'[Cur].nrets = n
             /\ c.ret_idx + n <= Len(lclos'[callerid].stack)
             /\ \A k \in 0..(n - 1) :
                   lclos'[callerid].stack[c.ret_idx + k + 1] =
                       IF k < r THEN out[Len(out) - r + k + 1] ELSE Nil]_vars

\* C10: EQ A B C compares RK[B] and RK[C] for equality, by content for
\* nil, booleans, numbers and strings and by identity for tables and
\* closures, and skips the next instruction exactly when the outcome
\* differs from (A # 0).
C10_EqSkips ==
    [][(/\ CanFetch /\ Fetched.op = "EQ"
        /\ RKok(Fetched.b) /\ RKok(Fetched.c)
        /\ err' = "")
       => LET equal == Raw(RK(Fetched.b)) = Raw(RK(Fetched.c))
          IN lclos'[Cur].pc =
                lclos[Cur].pc + 1
                + (IF equal # (Fetched.a # 0) THEN 1 ELSE 0)]_vars

(***************************************************************************)
(* Properties of arithmetic and of the constants.                          *)
(***************************************************************************)

\* C11: an arithmetic instruction (ADD, SUB, MUL, DIV, MOD, POW) with an
\* operand that is neither a number nor a string that converts to one,
\* and with no metamethod to apply, ends with a TypeError.
C11_ArithTypeError ==
    [][(/\ CanFetch /\ Fetched.op \in ArithOps
        /\ RKok(Fetched.b) /\ RKok(Fetched.c)
        /\ \E v \in {RK(Fetched.b), RK(Fetched.c)} :
              /\ v # None
              /\ ~is_number(v)
              /\ ~(is_string(v) /\ v.s \in DOMAIN ParseNumber)
        /\ GetMetatable(RK(Fetched.b)) = 0
        /\ GetMetatable(RK(Fetched.c)) = 0)
       => err' = "TypeError"]_vars

\* C12: ADD, SUB and MUL on operands that are integers or strings holding
\* an integer literal complete normally and leave in R[A] the integer that
\* the operator yields on the operands' numeric values.
C12_IntegerArith ==
    [][(/\ CanFetch /\ Fetched.op \in {"ADD", "SUB", "MUL"}
        /\ RKok(Fetched.b) /\ RKok(Fetched.c) /\ InReg(Stack, Fetched.a)
        /\ \A v \in {RK(Fetched.b), RK(Fetched.c)} :
              is_number(v) \/ (is_string(v) /\ v.s \in DOMAIN ParseNumber))
       => LET x == IF is_number(RK(Fetched.b)) THEN RK(Fetched.b).n
                   ELSE ParseNumber[RK(Fetched.b).s]
              y == IF is_number(RK(Fetched.c)) THEN RK(Fetched.c).n
                   ELSE ParseNumber[RK(Fetched.c).s]
          IN /\ err' = ""
             /\ Raw(lclos'[Cur].stack[Fetched.a + 1]) =
                  Num(CASE Fetched.op = "ADD" -> x + y
                        [] Fetched.op = "SUB" -> x - y
                        [] Fetched.op = "MUL" -> x * y)]_vars

\* "1" + 2 has left Integer 3 in R2
C12_Witness ==
    /\ err = "" /\ inst.op = "ADD" /\ inst.b = 0 /\ inst.c = 256 + K(Num(2))
    /\ call_info = <<LRef(1)>>
    /\ Raw(protos[1].consts[K(Str("1")) + 1]) = Num(1)
    /\ Raw(lclos[1].stack[3]) = Num(3)

\* C13: every constant of every prototype has the type and value it was
\* decoded with.
C13_ConstantsImmutable ==
    \A p \in DOMAIN protos : \A i \in DOMAIN protos[p].consts :
        Raw(protos[p].consts[i]) = KMain[i]

(***************************************************************************)
(* Properties of upvalues.                                                 *)
(***************************************************************************)

\* C14: when a closure executes SETUPVAL on an upvalue captured from a
\* register of a frame that is still live, the register of that frame and
\* the upvalue of every other closure that captured the same register of
\* the same frame hold the stored value afterwards.
C14_SharedUpvalue ==
    [][(/\ CanFetch /\ Fetched.op = "SETUPVAL"
        /\ InReg(Stack, Fetched.a)
        /\ Fetched.b < Len(lclos[Cur].upvalues)
        /\ lclos[Cur].upfrom[Fetched.b + 1].frame # 0
        /\ \E d \in DOMAIN call_info :
              call_info[d] = LRef(lclos[Cur].upfrom[Fetched.b + 1].frame))
       => LET from == lclos[Cur].upfrom[Fetched.b + 1]
              v == Stack[Fetched.a + 1]
          IN /\ lclos'[from.frame].stack[from.reg + 1] = v
             /\ \A c \in DOMAIN lclos : \A j \in DOMAIN lclos[c].upfrom :
                   lclos[c].upfrom[j] = from
                      => lclos'[c].upvalues[j] = v]_vars

\* C15: in the chunk that calls n times the closure made by
\* "local x = 0; return function() x = x + 1; return x end", whenever the
\* k-th call has returned to main, R[k] of main holds Integer k: the
\* upvalue outlives the frame that made the closure and every call.
C15_CounterPersists ==
    \A n \in 1..MaxCalls : \A k \in 1..n :
        (/\ protos[1].codes = CounterProg(n)[1].codes
         /\ call_info = <<LRef(1)>>
         /\ err = ""
         /\ lclos[1].pc >= 2 + 2 * k)
        => Raw(lclos[1].stack[k + 1]) = Num(k)

\* the third call of the counter has returned 3 to main
C15_Witness ==
    /\ protos[1].codes = CounterProg(MaxCalls)[1].codes
    /\ call_info = <<LRef(1)>> /\ err = ""
    /\ inst.op = "RETURN"
    /\ lclos[1].pc = 2 + 2 * MaxCalls
    /\ Raw(lclos[1].stack[MaxCalls + 1]) = Num(MaxCalls)
    /\ Raw(lclos[3].upvalues[1]) = Num(MaxCalls)

\* C16: GETTABLE honours an __index table: when R[B] is a table with no
\* value of its own for the key and the __index of its metatable is a
\* table u that has one, R[A] becomes u[key].
C16_GetTableIndex ==
    [][(/\ CanFetch /\ Fetched.op = "GETTABLE"
        /\ InReg(Stack, Fetched.a) /\ InReg(Stack, Fetched.b)
        /\ RKok(Fetched.c)
        /\ is_table(Stack[Fetched.b + 1])
        /\ TableGet(tables[Stack[Fetched.b + 1].n], RK(Fetched.c)) = None
        /\ GetMetatable(Stack[Fetched.b + 1]) # 0
        /\ is_table(TableGet(tables[GetMetatable(Stack[Fetched.b + 1])],
                             Str("__index")))
        /\ TableGet(tables[TableGet(tables[GetMetatable(Stack[Fetched.b + 1])],
                                    Str("__index")).n],
                    RK(Fetched.c)) # None)
       => /\ err' = ""
          /\ Raw(lclos'[Cur].stack[Fetched.a + 1]) =
               Raw(TableGet(tables[TableGet(tables[GetMetatable(
                                                Stack[Fetched.b + 1])],
                                            Str("__index")).n],
                            RK(Fetched.c)))]_vars

\* C17: a lookup through __index tables that goes deeper than the limit
\* (a cyclic chain does) ends with a MetamethodRecursion error.
C17_IndexChainBounded ==
    [][(/\ CanFetch /\ Fetched.op = "SELF"
        /\ InReg(Stack, Fetched.b) /\ RKok(Fetched.c)
        /\ Stack[Fetched.b + 1] # None
        /\ ValueGettable(Stack[Fetched.b + 1], RK(Fetched.c), 1).kind
             = "RecursionError")
       => err' = "MetamethodRecursion"]_vars

\* C18: a CALL whose target is neither a function nor a table whose
\* metatable has a function __call raises a TypeError, pushes no frame and
\* leaves the caller's registers as they were.
C18_CallNotCallable ==
    [][(/\ CanFetch /\ Fetched.op = "CALL"
        /\ InReg(Stack, Fetched.a)
        /\ Stack[Fetched.a + 1] # None
        /\ ~is_function(Stack[Fetched.a + 1])
        /\ ~HasCallMeta(Stack[Fetched.a + 1]))
       => /\ err' = "TypeError"
          /\ call_info' = call_info
          /\ lclos'[Cur].stack = Stack]_vars

\* C19: a CALL on a table whose metatable has a function __call calls that
\* function with the table followed by the nargs arguments, in order, and
\* when the function has returned its first result is in R[A] of the
\* caller, whose register window is as long as before.
C19_CallMetamethod ==
    [][/\ (/\ CanFetch /\ Fetched.op = "CALL"
           /\ InReg(Stack, Fetched.a)
           /\ HasCallMeta(Stack[Fetched.a + 1])
           /\ Fetched.a + Fetched.b - 1 < Len(Stack))
          => LET f == TableGet(tables[GetMetatable(Stack[Fetched.a + 1])],
                               Str("__call"))
                 nargs == IF Fetched.b > 0 THEN Fetched.b - 1
                          ELSE Len(Stack) - Fetched.a - 1
                 args == <<Stack[Fetched.a + 1]>>
                         \o CallArgs(Stack, Fetched.a, nargs)
             IN /\ err' = ""
                /\ IF is_lclosure(f)
                   THEN /\ call_info' = Append(call_info, LRef(f.n))
                        /\ \A i \in 1..Len(args) :
                              IF i <= protos[lclos[f.n].func].numparams
                              THEN lclos'[f.n].stack[i] = args[i]
                              ELSE lclos'[f.n].varargs[
                                       i - protos[lclos[f.n].func].numparams]
                                   = args[i]
                   ELSE /\ call_info' = Append(call_info, PRef(f.n))
                        /\ pclos'[f.n].stack = args
       /\ (/\ CanFetch /\ Fetched.op = "RETURN"
           /\ Fetched.b >= 2 /\ InReg(Stack, Fetched.a)
           /\ activations # <<>>
           /\ activations[Len(activations)].kind = "luacall"
           /\ activations[Len(activations)].cont.k = "CALL")
          => LET act == activations[Len(activations)]
                 caller == call_info[Len(call_info) - 1].id
             IN /\ err' = ""
                /\ lclos'[caller].stack[act.cont.idx + 1] = Stack[Fetched.a + 1]
                /\ Len(lclos'[caller].stack) = act.func_idx
       /\ (/\ Running /\ call_info # <<>> /\ Top.k = "P"
           /\ pclos[Top.id].func \in NativeModelled
           /\ activations[Len(activations)].kind = "pyluacall"
           /\ activations[Len(activations)].cont.k = "CALL"
           /\ NativeRun(pclos[Top.id].func, pclos[Top.id].stack).err = ""
           /\ NativeRun(pclos[Top.id].func, pclos[Top.id].stack).ret >= 1)
          => LET act == activations[Len(activations)]
                 caller == call_info[Len(call_info) - 1].id
                 out == NativeRun(pclos[Top.id].func, pclos[Top.id].stack)
             IN /\ err' = ""
                /\ lclos'[caller].stack[act.cont.idx + 1] =
                     out.stack[Len(out.stack) - out.ret + 1]
                /\ Len(lclos'[caller].stack) = act.func_idx]_vars

\* t(21, 31) with __call = function(self, x, y) return y end: the function
\* has run on (t, 21, 31) and R0 of the caller holds 31
C19_Witness ==
    /\ err = "" /\ call_info = <<LRef(1)>>
    /\ inst.op = "RETURN" /\ inst.a = 2
    /\ Len(tables) = 3 /\ HasCallMeta(TableV(1))
    /\ Len(lclos) = 2
    /\ Raw(lclos[2].stack[1]) = TableV(1)
    /\ Raw(lclos[2].stack[2]) = Num(21)
    /\ Raw(lclos[2].stack[3]) = Num(31)
    /\ Raw(lclos[1].stack[1]) = Num(31)
    /\ Len(lclos[1].stack) = 6

\* C21: a numeric for loop with integer init, limit and step # 0 runs its
\* body max(0, floor((limit - init) / step) + 1) times with the loop
\* variable init, init + step, ... in turn, then falls through: whenever
\* the body is about to run, the loop variable is init + k * step and the
\* sum is that of the k values before it, for some k below the count, and
\* after the loop the sum is that of all the values.
C21_ForLoopCount ==
    \A i \in {0, 1, 3} : \A l \in {0, 1, 3, 10} : \A st \in {-1, 1, 2} :
       (/\ protos[1].codes = ForProg(Num(i), Num(l), Num(st))[1].codes
        /\ call_info = <<LRef(1)>>)
       => /\ err = ""
          /\ lclos[1].pc = 5 =>
               \E k \in 0..(FloorDiv(l - i, st)) :
                  /\ Raw(lclos[1].stack[5]) = Num(i + k * st)
                  /\ Raw(lclos[1].stack[1]) =
                       Num(k * i + st * ((k * (k - 1)) \div 2))
          /\ lclos[1].pc = 7 =>
               Raw(lclos[1].stack[1]) =
                 Num(IF FloorDiv(l - i, st) + 1 > 0
                     THEN (FloorDiv(l - i, st) + 1) * i
                          + st * (((FloorDiv(l - i, st) + 1)
                                   * FloorDiv(l - i, st)) \div 2)
                     ELSE 0)

\* for i = 1, 10 do sum = sum + i end has fallen through with sum = 55
C21_Witness ==
    /\ protos[1].codes = ForProg(Num(1), Num(10), Num(1))[1].codes
    /\ call_info = <<LRef(1)>> /\ err = ""
    /\ inst.op = "FORLOOP" /\ lclos[1].pc = 7
    /\ Raw(lclos[1].stack[1]) = Num(55)

\* C22: setmetatable(t, mt) called by CALL with one result asked for, t a
\* table and mt a table or Nil, makes mt the metatable of t (none for Nil)
\* and leaves t in the caller's result slot.
C22_SetMetatableReturns ==
    [][(/\ Running /\ call_info # <<>> /\ Top.k = "P"
        /\ pclos[Top.id].func = "setmetatable"
        /\ activations[Len(activations)].kind = "pycall"
        /\ activations[Len(activations)].nrets = 1
        /\ Len(pclos[Top.id].stack) = 2
        /\ is_table(pclos[Top.id].stack[1])
        /\ is_table(pclos[Top.id].stack[2]) \/ is_nil(pclos[Top.id].stack[2]))
       => /\ err' = ""
          /\ tables'[pclos[Top.id].stack[1].n].mt =
               (IF is_table(pclos[Top.id].stack[2])
                THEN pclos[Top.id].stack[2].n ELSE 0)
          /\ lclos'[call_info[Len(call_info) - 1].id].stack[
                 activations[Len(activations)].func_idx + 1]
             = pclos[Top.id].stack[1]]_vars

\* C23: when a runtime error leaves a call, every frame the call pushed has
\* been discarded: the frame stack is as deep as when the call was made and
\* its top frame is the caller's.
C23_ErrorUnwinds ==
    [][(err # "" /\ activations # <<>> /\ activations' = Front(activations))
       => Len(call_info') = activations[Len(activations)].depth]_vars

\* C24: dispatch loops are properly nested.  A RETURN pops exactly the top
\* frame; when it completes inside a call, it ends the innermost dispatch
\* loop, which is the one started when the frame stack was one frame
\* shorter (the call that pushed the returning frame), and no other.  The
\* RETURN of the bottom frame leaves the frame stack empty without ending
\* any nested loop, and with an empty frame stack no instruction is fetched
\* or executed: no frame is pushed and no program counter moves.
C24_ReturnNested ==
    [][/\ (Running /\ CanFetch /\ Fetched.op = "RETURN")
          => /\ call_info' = Front(call_info)
             /\ (activations # <<>> /\ err' = "")
                => /\ activations' = Front(activations)
                   /\ activations[Len(activations)].depth
                        = Len(call_info) - 1
                   /\ activations[Len(activations)].kind
                        \in {"call", "luacall"}
             /\ Len(call_info) = 1
                => call_info' = <<>> /\ activations = <<>>
       /\ call_info = <<>>
          => /\ call_info' = <<>>
             /\ inst' = NoInst
             /\ \A i \in DOMAIN lclos : lclos'[i].pc = lclos[i].pc]_vars

\* a RETURN from the third frame has ended the inner dispatch loop and left
\* the outer one running
C24_Witness ==
    /\ inst.op = "RETURN" /\ err = ""
    /\ Len(call_info) = 2
    /\ Len(activations) = 1

\* the operand an RK field v denotes: constant v - 256 of the running
\* prototype when v >= 256, register v otherwise
Operand(v) ==
    IF v >= 256 THEN CurProto.consts[v - 256 + 1] ELSE Stack[v + 1]
OperandOk(v) ==
    IF v >= 256 THEN v - 256 < Len(CurProto.consts) ELSE InReg(Stack, v)

\* C25: GETTABLE (C), SETTABLE (B, C), SELF (C), ADD .. POW (B, C) and EQ,
\* LT, LE (B, C) work on the operands their RK fields denote: the outcome of
\* the instruction is the one for constant v - 256 when the field is
\* v >= 256 and for register v otherwise.  The register file keeps its
\* length, under 256, so no register of index 256 or more is read or
\* written.
C25_RKResolved ==
    [][(/\ CanFetch
        /\ Fetched.op \in {"GETTABLE", "SETTABLE", "SELF", "ADD", "SUB", "MUL",
                           "DIV", "MOD", "POW", "EQ", "LT", "LE"}
        /\ InReg(Stack, Fetched.a)
        /\ OperandOk(Fetched.c)
        /\ IF Fetched.op \in {"GETTABLE", "SELF"}
           THEN /\ InReg(Stack, Fetched.b)
                /\ is_table(Stack[Fetched.b + 1])
                /\ GetMetatable(Stack[Fetched.b + 1]) = 0
                /\ Fetched.op = "SELF" => InReg(Stack, Fetched.a + 1)
           ELSE OperandOk(Fetched.b)
        /\ Fetched.op = "SETTABLE"
           => /\ is_table(Stack[Fetched.a + 1])
              /\ ~is_nil(Operand(Fetched.b)) /\ ~is_nil(Operand(Fetched.c))
        /\ Fetched.op \in {"ADD", "SUB", "MUL", "DIV", "MOD", "POW"}
           => /\ is_number(Operand(Fetched.b)) /\ is_number(Operand(Fetched.c))
              /\ ArithDefined(Fetched.op, Operand(Fetched.b).n,
                              Operand(Fetched.c).n)
        /\ Fetched.op \in {"EQ", "LT", "LE"}
           => CompareCheck(Operand(Fetched.b), Operand(Fetched.c)))
       => /\ err' = ""
          /\ Len(lclos'[Cur].stack) = Len(Stack) /\ Len(Stack) < 256
          /\ Fetched.op \in {"GETTABLE", "SELF"}
             => Raw(lclos'[Cur].stack[Fetched.a + 1]) =
                  (IF TableGet(tables[Stack[Fetched.b + 1].n],
                               Operand(Fetched.c)) = None
                   THEN Nil
                   ELSE Raw(TableGet(tables[Stack[Fetched.b + 1].n],
                                     Operand(Fetched.c))))
          /\ Fetched.op = "SETTABLE"
             => Raw(TableGet(tables'[Stack[Fetched.a + 1].n],
                             Operand(Fetched.b)))
                = Raw(Operand(Fetched.c))
          /\ Fetched.op \in {"ADD", "SUB", "MUL", "DIV", "MOD", "POW"}
             => Raw(lclos'[Cur].stack[Fetched.a + 1]) =
                  Num(ArithApply(Fetched.op, Operand(Fetched.b).n,
                                 Operand(Fetched.c).n))
          /\ Fetched.op \in {"EQ", "LT", "LE"}
             => lclos'[Cur].pc = lclos[Cur].pc + 1 +
                  (IF (IF Fetched.op = "EQ"
                       THEN CompareEQ(Operand(Fetched.b), Operand(Fetched.c))
                       ELSE CompareOrd(Fetched.op, Operand(Fetched.b),
                                       Operand(Fetched.c)))
                      # (Fetched.a # 0)
                   THEN 1 ELSE 0)]_vars

\* LT 1 K(1) K(2) has compared the constants 1 and 2 and gone on without
\* skipping
C25_Witness ==
    /\ err = "" /\ inst.op = "LT" /\ inst.a = 1
    /\ inst.b = 256 + K(Num(1)) /\ inst.c = 256 + K(Num(2))
    /\ call_info = <<LRef(1)>>
    /\ lclos[1].pc = 3

\* C29: CLOSURE A Bx leaves in R[A] a new closure of prototype Bx of the
\* running function and consumes the num_upvalues instructions that follow
\* it: the program counter ends past them, upvalue i is R[B] for a MOVE and
\* upvalue B of the running closure for a GETUPVAL.  When one of them is
\* another opcode the instruction raises an error.
C29_ClosureCaptures ==
    [][(/\ CanFetch /\ Fetched.op = "CLOSURE"
        /\ InReg(Stack, Fetched.a)
        /\ Fetched.bx < Len(CurProto.protos)
        /\ lclos[Cur].pc + 1 + protos[CurProto.protos[Fetched.bx + 1]].nups
             <= Len(Code))
       => IF \A i \in 1..protos[CurProto.protos[Fetched.bx + 1]].nups :
               \/ /\ Code[lclos[Cur].pc + 1 + i].op = "MOVE"
                  /\ InReg(Stack, Code[lclos[Cur].pc + 1 + i].b)
               \/ /\ Code[lclos[Cur].pc + 1 + i].op = "GETUPVAL"
                  /\ Code[lclos[Cur].pc + 1 + i].b < Len(lclos[Cur].upvalues)
          THEN /\ err' = ""
               /\ Len(lclos') = Len(lclos) + 1
               /\ lclos'[Cur].stack[Fetched.a + 1] = LClosureV(Len(lclos'))
               /\ lclos'[Len(lclos')].func = CurProto.protos[Fetched.bx + 1]
               /\ lclos'[Cur].pc =
                    lclos[Cur].pc + 1
                    + protos[CurProto.protos[Fetched.bx + 1]].nups
               /\ Len(lclos'[Len(lclos')].upvalues) =
                    protos[CurProto.protos[Fetched.bx + 1]].nups
               /\ \A i \in 1..protos[CurProto.protos[Fetched.bx + 1]].nups :
                    lclos'[Len(lclos')].upvalues[i] =
                      (IF Code[lclos[Cur].pc + 1 + i].op = "MOVE"
                       THEN lclos'[Cur].stack[
                                Code[lclos[Cur].pc + 1 + i].b + 1]
                       ELSE lclos[Cur].upvalues[
                                Code[lclos[Cur].pc + 1 + i].b + 1])
          ELSE (\E i \in 1..protos[CurProto.protos[Fetched.bx + 1]].nups :
                   Code[lclos[Cur].pc + 1 + i].op \notin {"MOVE", "GETUPVAL"})
               => err' # ""]_vars

\* in f, CLOSURE 1 0 followed by GETUPVAL 0 0 and MOVE 0 0 has bound x (10)
\* and y (3) and left the program counter after the two
C29_Witness ==
    /\ err = "" /\ inst.op = "CLOSURE"
    /\ protos[1].codes = ClosureProg(2, "GETUPVAL", "MOVE")[1].codes
    /\ protos[3].nups = 2
    /\ protos[2].codes[3].op = "GETUPVAL" /\ protos[2].codes[4].op = "MOVE"
    /\ Len(call_info) = 2
    /\ lclos[Cur].pc = 4
    /\ Len(lclos[Len(lclos)].upvalues) = 2
    /\ Raw(lclos[Len(lclos)].upvalues[1]) = Num(10)
    /\ Raw(lclos[Len(lclos)].upvalues[2]) = Num(3)

\* C30: after CLOSE A every upvalue that was bound to a register R[r] of
\* the running frame with r >= A holds the value the register has at the
\* CLOSE, writes made since the closure was created included.
C30_CloseCopies ==
    [][(CanFetch /\ Fetched.op = "CLOSE")
       => \A f \in DOMAIN lclos : \A i \in DOMAIN lclos[f].upvalues :
            (/\ lclos[f].upfrom[i].frame = Cur
             /\ lclos[f].upfrom[i].reg >= Fetched.a
             /\ InReg(Stack, lclos[f].upfrom[i].reg))
            => Raw(lclos'[f].upvalues[i])
               = Raw(Stack[lclos[f].upfrom[i].reg + 1])]_vars

\* C31: VARARG A B with B > 0 raises no error and writes R[A] .. R[A+B-2]
\* only: the frame's varargs in order, then Nil where they run out.
C31_VarargPads ==
    [][(/\ CanFetch /\ Fetched.op = "VARARG" /\ Fetched.b > 0
        /\ Fetched.a + Fetched.b - 1 <= Len(Stack))
       => /\ err' = ""
          /\ Len(lclos'[Cur].stack) = Len(Stack)
          /\ \A i \in 1..Len(Stack) :
               lclos'[Cur].stack[i] =
                 (IF Fetched.a + 1 <= i /\ i <= Fetched.a + Fetched.b - 1
                  THEN IF i - Fetched.a <= Len(lclos[Cur].varargs)
                       THEN lclos[Cur].varargs[i - Fetched.a]
                       ELSE Nil
                  ELSE Stack[i])]_vars

\* C32: SETLIST A B C with B > 0 stores R[A+i] under the key
\* (C - 1) * 50 + i of the table R[A] for i = 1 .. B.  With C = 0 the word
\* that follows is C, and the program counter ends past that word.
C32_SetListKeys ==
    [][(/\ CanFetch /\ Fetched.op = "SETLIST" /\ Fetched.b > 0
        /\ InReg(Stack, Fetched.a + Fetched.b)
        /\ is_table(Stack[Fetched.a + 1])
        /\ Fetched.c = 0 => lclos[Cur].pc + 1 < Len(Code))
       => /\ err' = ""
          /\ lclos'[Cur].pc = lclos[Cur].pc + (IF Fetched.c = 0 THEN 2 ELSE 1)
          /\ \A i \in 1..Fetched.b :
               TableGet(tables'[Stack[Fetched.a + 1].n],
                        Num(((IF Fetched.c = 0
                              THEN InstructionWord(Code[lclos[Cur].pc + 2])
                              ELSE Fetched.c) - 1) * 50 + i))
               = (IF is_nil(Stack[Fetched.a + i + 1]) THEN None
                  ELSE Stack[Fetched.a + i + 1])]_vars

\* SETLIST 0 2 0 followed by the word 2 has stored R1 and R2 under 51 and 52
\* and gone on to the RETURN
C32_Witness ==
    /\ err = "" /\ inst.op = "SETLIST" /\ inst.b = 2 /\ inst.c = 0
    /\ call_info = <<LRef(1)>>
    /\ protos[1].codes[5] = Decode(2)
    /\ lclos[1].pc = 5
    /\ Raw(TableGet(tables[1], Num(51))) = Num(11)
    /\ Raw(TableGet(tables[1], Num(52))) = Num(12)

\* C33: with only Nil and false counting as false, TEST A C skips the next
\* instruction exactly when the truth of R[A] differs from (C # 0); TESTSET
\* A B C copies R[B] to R[A] and does not skip when the truth of R[B] is
\* (C # 0), and otherwise skips and leaves the registers as they were.
C33_TestTruth ==
    [][/\ (CanFetch /\ Fetched.op = "TEST" /\ InReg(Stack, Fetched.a))
          => /\ err' = ""
             /\ lclos'[Cur].stack = Stack
             /\ lclos'[Cur].pc = lclos[Cur].pc + 1 +
                  (IF (Raw(Stack[Fetched.a + 1]) \notin {Nil, Bool(FALSE)})
                      # (Fetched.c # 0)
                   THEN 1 ELSE 0)
       /\ (/\ CanFetch /\ Fetched.op = "TESTSET"
           /\ InReg(Stack, Fetched.a) /\ InReg(Stack, Fetched.b))
          => /\ err' = ""
             /\ IF (Raw(Stack[Fetched.b + 1]) \notin {Nil, Bool(FALSE)})
                   = (Fetched.c # 0)
                THEN /\ lclos'[Cur].pc = lclos[Cur].pc + 1
                     /\ lclos'[Cur].stack =
                          [Stack EXCEPT ![Fetched.a + 1] =
                                           Stack[Fetched.b + 1]]
                ELSE /\ lclos'[Cur].pc = lclos[Cur].pc + 2
                     /\ lclos'[Cur].stack = Stack]_vars

\* TESTSET 1 0 1 on R0 = 0, which is true, has copied it to R1 without
\* skipping
C33_Witness ==
    /\ err = "" /\ inst.op = "TESTSET" /\ inst.c = 1
    /\ call_info = <<LRef(1)>>
    /\ lclos[1].pc = 3
    /\ Raw(lclos[1].stack[1]) = Num(0)
    /\ Raw(lclos[1].stack[2]) = Num(0)

\* the values the iterator called by TFORLOOP is returning
TForReturned ==
    IF Top.k = "L"
    THEN SubSeq(Stack, Fetched.a + 1,
                IF Fetched.b = 0 THEN Len(Stack)
                                 ELSE Fetched.a + Fetched.b - 1)
    ELSE LET out == NativeRun(pclos[Top.id].func, pclos[Top.id].stack)
         IN SubSeq(out.stack, Len(out.stack) - out.ret + 1, Len(out.stack))

\* the call of TFORLOOP A C is over: before and after in the frame fid of
\* the loop, whose pc was already past the TFORLOOP
TForStep(fid, a, c, vals) ==
    LET st == lclos[fid].stack
        st2 == lclos'[fid].stack
        jmp == protos[lclos[fid].func].codes[lclos[fid].pc + 1]
    IN /\ Raw(st2[a + 1]) = Raw(st[a + 1])
       /\ Raw(st2[a + 2]) = Raw(st[a + 2])
       /\ \A i \in 1..c :
             Raw(st2[a + 3 + i]) =
               IF i <= Len(vals) THEN Raw(vals[i]) ELSE Nil
       /\ IF is_nil(st2[a + 4])
          THEN /\ lclos'[fid].pc = lclos[fid].pc + 1
               /\ Raw(st2[a + 3]) = Raw(st[a + 3])
          ELSE /\ lclos'[fid].pc = lclos[fid].pc + 1 + jmp.sbx
               /\ Raw(st2[a + 3]) = Raw(st2[a + 4])

\* the sum of 1..n
SumTo(n) == (n * (n + 1)) \div 2

\* C34: TFORLOOP A C calls R[A] with R[A+1] and R[A+2] and C results
\* wanted; when the call is over the results (Nil where the iterator gave
\* fewer) are in R[A+3]..R[A+2+C], R[A] and R[A+1] are as they were, and if
\* R[A+3] is not Nil then R[A+2] is R[A+3] and the run goes on at the
\* target of the JMP that follows, else after that JMP.  So a loop whose
\* iterator gives Nil first on its k-th call runs its body k - 1 times:
\* for the iterator that counts up to n, the body sees 1, 2, ..., n in turn
\* and the loop is left with the sum of them.
C34_TForLoop ==
    /\ [][(/\ Running /\ activations # <<>> /\ call_info # <<>>
           /\ activations[Len(activations)].kind \in {"call", "pycall"}
           /\ activations[Len(activations)].tfor
           /\ Len(activations') < Len(activations))
          => /\ err' = ""
             /\ TForStep(call_info[activations[Len(activations)].depth].id,
                         activations[Len(activations)].func_idx - 3,
                         IF activations[Len(activations)].kind = "call"
                         THEN activations[Len(activations)].want
                         ELSE activations[Len(activations)].nrets,
                         TForReturned)]_vars
    /\ [](\A n \in {0, 1, 3} : \A C \in {1, 2} :
            (/\ protos[1].codes = TForProg("lua", n, C)[1].codes
             /\ call_info = <<LRef(1)>>)
            => /\ err = ""
               /\ lclos[1].pc = 5 =>
                    \E k \in 1..n :
                       /\ Raw(lclos[1].stack[5]) = Num(k)
                       /\ Raw(lclos[1].stack[1]) = Num(SumTo(k - 1))
               /\ lclos[1].pc = 8 =>
                    Raw(lclos[1].stack[1]) = Num(SumTo(n)))

\* for v in f, 3, 0 do sum = sum + v end has ended with sum = 6, the
\* fourth call of f having given Nil
C34_Witness ==
    /\ protos[1].codes = TForProg("lua", 3, 1)[1].codes
    /\ call_info = <<LRef(1)>> /\ err = ""
    /\ lclos[1].pc = 8 /\ inst.op = "RETURN"
    /\ is_nil(lclos[1].stack[5])
    /\ Raw(lclos[1].stack[1]) = Num(6)

\* the text of a string or number in a concatenation
ConcatForm(v) == IF is_number(v) THEN ToString(v.n) ELSE v.s

\* C35: CONCAT A B C whose operands R[B]..R[C] are all strings or numbers
\* raises no error and sets R[A] to the string made of their texts from
\* left to right, a number giving its text and a string itself, the empty
\* string included (here B = 0 and C = 2).
C35_ConcatJoins ==
    [][(/\ Running /\ OnLua /\ CanFetch /\ Fetched.op = "CONCAT"
        /\ Fetched.b = 0 /\ Fetched.c = 2 /\ Len(Stack) > 3
        /\ \A i \in 1..3 : is_string(Stack[i]) \/ is_number(Stack[i]))
       => /\ err' = ""
          /\ Raw(lclos'[Cur].stack[Fetched.a + 1]) =
               Str(ConcatForm(Stack[1]) \o ConcatForm(Stack[2])
                   \o ConcatForm(Stack[3]))]_vars

\* "a" .. 1 .. "b" has given "a1b"
C35_Witness ==
    /\ inst.op = "CONCAT" /\ err = "" /\ call_info = <<LRef(1)>>
    /\ Raw(lclos[1].stack[1]) = Str("a")
    /\ Raw(lclos[1].stack[2]) = Num(1)
    /\ Raw(lclos[1].stack[4]) = Str("a1b")

\* the operand of UNM has a metatable whose __unm is a function
HasUnmMeta(v) ==
    /\ GetMetatable(v) # 0
    /\ is_function(TableGet(tables[GetMetatable(v)], Str("__unm")))

\* C36: UNM A B puts the negation of a number R[B] in R[A]; for an operand
\* that is not a number and has a function __unm in its metatable the
\* metamethod is called on it; for a boolean or Nil without one the
\* instruction raises TypeError and writes no number.
C36_UnmNegates ==
    [][(/\ Running /\ OnLua /\ CanFetch /\ Fetched.op = "UNM"
        /\ InReg(Stack, Fetched.b) /\ InReg(Stack, Fetched.a))
       => /\ is_number(Stack[Fetched.b + 1])
               => /\ err' = ""
                  /\ Raw(lclos'[Cur].stack[Fetched.a + 1]) =
                       Num(-Stack[Fetched.b + 1].n)
          /\ (~is_number(Stack[Fetched.b + 1])
               /\ ~is_string(Stack[Fetched.b + 1])
               /\ HasUnmMeta(Stack[Fetched.b + 1]))
               => /\ err' = ""
                  /\ Len(call_info') = Len(call_info) + 1
          /\ ((is_boolean(Stack[Fetched.b + 1])
                \/ is_nil(Stack[Fetched.b + 1]))
               /\ ~HasUnmMeta(Stack[Fetched.b + 1]))
               => /\ err' = "TypeError"
                  /\ lclos'[Cur].stack[Fetched.a + 1]
                       = Stack[Fetched.a + 1]]_vars

\* C38: a value copied out of the variable R[A+3] of a numeric for loop
\* by MOVE, SETTABLE or capture as an upvalue keeps the value of its
\* iteration: a later FORLOOP, which updates R[A] and R[A+3], changes no
\* other register of the frame, no slot of a table and no upvalue, and
\* for i = 1, 3 do t[i] = i end leaves t[1] = 1, t[2] = 2, t[3] = 3.
C38_LoopCopiesKept ==
    /\ [][(/\ Running /\ OnLua /\ CanFetch /\ Fetched.op = "FORLOOP"
           /\ InReg(Stack, Fetched.a + 3)
           /\ \A i \in 1..3 : is_number(Stack[Fetched.a + i])
           /\ err' = "")
          => /\ \A i \in 1..Len(Stack) :
                   i \notin {Fetched.a + 1, Fetched.a + 4}
                   => Raw(lclos'[Cur].stack[i]) = Raw(Stack[i])
             /\ \A t \in DOMAIN tables :
                   /\ Len(tables'[t].list) = Len(tables[t].list)
                   /\ \A i \in 1..Len(tables[t].list) :
                         Raw(tables'[t].list[i]) = Raw(tables[t].list[i])
             /\ \A c \in DOMAIN lclos :
                   \A u \in 1..Len(lclos[c].upvalues) :
                      Raw(lclos'[c].upvalues[u]) = Raw(lclos[c].upvalues[u])
         ]_vars
    /\ []((/\ protos[1].codes = ForCopyProg("SETTABLE", 3)[1].codes
           /\ call_info = <<LRef(1)>> /\ err = ""
           /\ lclos[1].pc = 7)
          => /\ Raw(TableGet(tables[1], Num(1))) = Num(1)
             /\ Raw(TableGet(tables[1], Num(2))) = Num(2)
             /\ Raw(TableGet(tables[1], Num(3))) = Num(3))

\* C39: ADD, SUB, MUL, DIV, MOD, POW, EQ, LT and LE change no register
\* but the target R[A] of an arithmetic instruction (none for a
\* comparison): an operand register holding a numeric string holds that
\* string afterwards, and so does every other register, table slot and
\* upvalue.
C39_OperandsKept ==
    [][(/\ Running /\ OnLua /\ CanFetch
        /\ Fetched.op \in ArithOps \cup {"EQ", "LT", "LE"}
        /\ Len(call_info') = Len(call_info))
       => /\ \A i \in 1..Len(Stack) :
                (Fetched.op \in ArithOps => i # Fetched.a + 1)
                => Raw(lclos'[Cur].stack[i]) = Raw(Stack[i])
          /\ \A t \in DOMAIN tables :
                /\ Len(tables'[t].list) = Len(tables[t].list)
                /\ \A i \in 1..Len(tables[t].list) :
                      Raw(tables'[t].list[i]) = Raw(tables[t].list[i])
          /\ \A c \in DOMAIN lclos :
                \A u \in 1..Len(lclos[c].upvalues) :
                   Raw(lclos'[c].upvalues[u]) = Raw(lclos[c].upvalues[u])
      ]_vars

(***************************************************************************)
(* SpecTable: one Table, any sequence of set(key, value).                  *)
(***************************************************************************)
TableKeys == {Num(i) : i \in (-1)..MaxKey} \cup {Str("a"), Bool(TRUE), Nil}
TableVals == {Nil, Str("x"), Str("y")}

NoSet == [done |-> FALSE, key |-> Nil, value |-> Nil, len |-> 0]

InitTable ==
    /\ protos = <<>>
    /\ lclos = <<>>
    /\ pclos = <<>>
    /\ tables = <<EmptyTable>>
    /\ globals = EmptyTable
    /\ typemt = EmptyTable
    /\ pylua = NoPyLua
    /\ call_info = <<>>
    /\ activations = <<>>
    /\ inst = NoInst
    /\ err = ""
    /\ halted = TRUE
    /\ lastpy = [id |-> 0, ret_count |-> 0]
    /\ lastset = NoSet
    /\ nobj = 0

SetCall(k, v) ==
    /\ tables' = [tables EXCEPT ![1] = TableSet(tables[1], k, v)]
    /\ lastset' = [done |-> TRUE, key |-> k, value |-> v,
                   len |-> Len(tables[1].list)]
    /\ UNCHANGED vmvars

DoSet == \E k \in TableKeys, v \in TableVals : SetCall(k, v)

NextTable == DoSet

SpecTable == InitTable /\ [][NextTable]_vars

C9_SetNilRemoves ==
    (lastset.done /\ is_nil(lastset.value))
        => TableGet(tables[1], lastset.key) = None

\* C26: a set with a Nil key is rejected with an error and stores nothing:
\* the table never holds an entry under the key Nil.
C26_NilKeyRejected ==
    /\ TableGet(tables[1], Nil) = None
    /\ (lastset.done /\ is_nil(lastset.key)) => err # ""

\* C27: set(N + 1, v) with v not Nil on a table whose array part has
\* length N appends v and moves the contiguous successors N + 2, N + 3, ...
\* held in the hash part into the array part: the new length is N + 1 + m
\* for the m successors moved, get(N + 1) is v, and get(k) is what it was
\* for every other key.
C27_AppendMigrates ==
    [][(/\ lastset'.done /\ has_integer(lastset'.key)
        /\ lastset'.key.n = Len(tables[1].list) + 1
        /\ lastset'.len = Len(tables[1].list)
        /\ ~is_nil(lastset'.value))
       => \E m \in 0..(MaxKey + 1) :
            /\ \A j \in 1..m :
                 Num(Len(tables[1].list) + 1 + j) \in DOMAIN tables[1].map
            /\ Num(Len(tables[1].list) + 2 + m) \notin DOMAIN tables[1].map
            /\ Len(tables'[1].list) = Len(tables[1].list) + 1 + m
            /\ TableGet(tables'[1], lastset'.key) = lastset'.value
            /\ \A k \in TableKeys \cup {Num(MaxKey + 1)} :
                 Raw(k) # Raw(lastset'.key)
                 => TableGet(tables'[1], k) = TableGet(tables[1], k)]_vars

\* set(1, v) on an empty array part has brought 2 and 3 in from the hash part
C27_Witness ==
    /\ lastset.done /\ lastset.len = 0 /\ lastset.key = Num(1)
    /\ ~is_nil(lastset.value)
    /\ Len(tables[1].list) = 3

C40_PartsDisjoint ==
    /\ \A i \in 1..Len(tables[1].list) : ~is_nil(tables[1].list[i])
    /\ \A k \in 1..(Len(tables[1].list) + 1) :
          Num(k) \notin DOMAIN tables[1].map

\* set(2, Nil) on an array of length 3 has left an array of length 1 and
\* the key 3 in the hash part
C40_Witness ==
    /\ lastset.done /\ lastset.key = Num(2) /\ is_nil(lastset.value)
    /\ lastset.len = 3
    /\ Len(tables[1].list) = 1
    /\ Num(3) \in DOMAIN tables[1].map


(***************************************************************************)
(* SpecLoad: PyLua.__init__ on a chunk file.  The file is its first twelve *)
(* bytes followed by a well-formed function block; pylua.main says         *)
(* whether the main prototype was produced.                                *)
(***************************************************************************)

\* the header of a chunk written by a standard Lua 5.1 on this platform
LuaHeader == <<27, 76, 117, 97, 81, 0, 1, 4, 8, 4, 8, 0>>

\* the values a byte of the file is drawn from
ByteValues == {0, 1, 4, 8, 27, 76, 81, 82, 97, 117, 255}

Chunks ==
    {[LuaHeader EXCEPT ![i] = b] : i \in DOMAIN LuaHeader, b \in ByteValues}

\* Header.__init__: the signature is compared, the other eight bytes are
\* read into the fields
HeaderInit(bytes) ==
    IF SubSeq(bytes, 1, 4) # <<27, 76, 117, 97>>
    THEN [err |-> "ValueError", header |-> <<>>]
    ELSE [err |-> "",
          header |-> [signature |-> SubSeq(bytes, 1, 4),
                      version |-> bytes[5],
                      format |-> bytes[6],
                      endianness |-> bytes[7],
                      int_len |-> bytes[8],
                      size_len |-> bytes[9],
                      inst_len |-> bytes[10],
                      number_len |-> bytes[11],
                      number_is_int |-> bytes[12] # 0]]

InitLoad ==
    /\ \E bytes \in Chunks :
          pylua = [bytes |-> bytes, done |-> FALSE, header |-> <<>>,
                   main |-> FALSE]
    /\ protos = <<>>
    /\ lclos = <<>>
    /\ pclos = <<>>
    /\ tables = <<>>
    /\ globals = EmptyTable
    /\ typemt = EmptyTable
    /\ call_info = <<>>
    /\ activations = <<>>
    /\ inst = NoInst
    /\ err = ""
    /\ halted = FALSE
    /\ lastpy = [id |-> 0, ret_count |-> 0]
    /\ lastset = [done |-> FALSE, key |-> Nil, value |-> Nil, len |-> 0]
    /\ nobj = 0

\* PyLua.__init__: Header(self.reader), then Proto(self.reader) unless the
\* header raised
PyLuaInit ==
    /\ ~pylua.done
    /\ err' = HeaderInit(pylua.bytes).err
    /\ pylua' = [pylua EXCEPT !.done = TRUE,
                              !.header = HeaderInit(pylua.bytes).header,
                              !.main = HeaderInit(pylua.bytes).err = ""]
    /\ UNCHANGED <<protos, lclos, pclos, tables, globals, typemt, call_info,
                   activations, inst, halted, lastpy, lastset, nobj>>

NextLoad == PyLuaInit

SpecLoad == InitLoad /\ [][NextLoad]_vars

\* C20: a chunk is loaded only when its first twelve bytes are exactly
\* 1B 4C 75 61 51 00 01 04 08 04 08 00; when any of them differs the load
\* ends with an error and no prototype is produced.
C20_HeaderExact ==
    (pylua.done /\ pylua.bytes # LuaHeader) => (err # "" /\ ~pylua.main)

(***************************************************************************)
(* SpecDecode: one Instruction object.  Instruction.__init__ has read the  *)
(* word; update_info decodes it.                                           *)
(***************************************************************************)

\* the field values the words are made of
OpcodeValues == {0, 1, 22, 37, 38, 63}
AValues == {0, 1, 128, 255}
BValues == {0, 1, 255, 256, 511}
CValues == {0, 1, 3, 4, 256, 511}

\* the word whose bits 0-5 are o, 6-13 a, 14-22 c and 23-31 b
EncodeWord(o, a, b, c) ==
    [hi |-> b * 128 + (c \div 4), lo |-> (c % 4) * 16384 + a * 64 + o]

Words ==
    {EncodeWord(x[1], x[2], x[3], x[4]) :
        x \in OpcodeValues \X AValues \X BValues \X CValues}

\* Instruction.__init__: only the word is set
NewInstruction(w) ==
    [instruction |-> w, updated |-> FALSE, op |-> "NONE", opcode |-> 0,
     a |-> 0, b |-> 0, c |-> 0, bx |-> 0, sbx |-> 0]

InitDecode ==
    /\ \E w \in Words : inst = NewInstruction(w)
    /\ protos = <<>>
    /\ lclos = <<>>
    /\ pclos = <<>>
    /\ tables = <<>>
    /\ globals = EmptyTable
    /\ typemt = EmptyTable
    /\ pylua = NoPyLua
    /\ call_info = <<>>
    /\ activations = <<>>
    /\ err = ""
    /\ halted = FALSE
    /\ lastpy = [id |-> 0, ret_count |-> 0]
    /\ lastset = [done |-> FALSE, key |-> Nil, value |-> Nil, len |-> 0]
    /\ nobj = 0

\* Instruction.update_info: the six fields are assigned, then the name is
\* looked up in OPCODES
update_info ==
    /\ ~inst.updated
    /\ inst' = [inst EXCEPT
                   !.updated = TRUE,
                   !.opcode = DecodeFields(inst.instruction).opcode,
                   !.a = DecodeFields(inst.instruction).a,
                   !.b = DecodeFields(inst.instruction).b,
                   !.c = DecodeFields(inst.instruction).c,
                   !.bx = DecodeFields(inst.instruction).bx,
                   !.sbx = DecodeFields(inst.instruction).sbx,
                   !.op = IF OpName(DecodeFields(inst.instruction).opcode)
                             = "IndexError"
                          THEN @
                          ELSE OpName(DecodeFields(inst.instruction).opcode)]
    /\ err' = IF OpName(DecodeFields(inst.instruction).opcode) = "IndexError"
              THEN "IndexError" ELSE ""
    /\ UNCHANGED <<protos, lclos, pclos, tables, globals, typemt, pylua,
                   call_info, activations, halted, lastpy, lastset, nobj>>

NextDecode == update_info

SpecDecode == InitDecode /\ [][NextDecode]_vars

\* C37: the fields decoded from a 32-bit word w are opcode = w mod 64,
\* A = (w div 2^6) mod 256, C = (w div 2^14) mod 512, B = (w div 2^23) mod
\* 512, Bx = (w div 2^14) mod 2^18 = B * 512 + C and sBx = Bx - 131071:
\* the word made of o in bits 0-5, a in bits 6-13, c in bits 14-22 and b in
\* bits 23-31 decodes to exactly these.
C37_DecodeFields ==
    \A o \in OpcodeValues : \A a \in AValues :
       \A b \in BValues : \A c \in CValues :
          (inst.updated /\ inst.instruction = EncodeWord(o, a, b, c))
          => /\ inst.opcode = o
             /\ inst.a = a
             /\ inst.c = c
             /\ inst.b = b
             /\ inst.bx = b * 512 + c
             /\ inst.sbx = inst.bx - 131071

\* the word with every bit of B set and C = 1, opcode JMP, was decoded
C37_Witness ==
    /\ inst.updated
    /\ inst.instruction = EncodeWord(22, 1, 511, 1)
    /\ inst.op = "JMP" /\ inst.b = 511 /\ inst.bx = 261633
    /\ inst.sbx = 130562

====
